---------------------------- MODULE Spec2Model ----------------------------
(***************************************************************************)
(* A model of pytheriak's wrapper.py: the TherCaller that segments a       *)
(* theriak report into blocks and the Rock / Phase objects assembled from  *)
(* those blocks.  Lines and tokens are TLA+ strings, handled character by  *)
(* character the way the Python string methods handle them.                *)
(***************************************************************************)
EXTENDS Integers, Sequences, FiniteSets, TLC

VARIABLES
    pc,              \* position of the running call
    fnd,             \* arguments, locals and result of one output_block_finder call
    tc,              \* the TherCaller instance's attributes
    args,            \* the arguments of the running minimisation call
    theriak_run,     \* the configuration of the theriak run behind theriak_output
    theriak_output,  \* the raw report text returned by call_theriak
    rd,              \* what read_theriak returned
    rock,            \* the Rock under construction in create_rock
    ret              \* what the call returned (or the error it raised)

vars == <<pc, fnd, tc, args, theriak_run, theriak_output, rd, rock, ret>>

(***************************************************************************)
(* Python string and list primitives                                       *)
(***************************************************************************)

\* Body(v) for the value v of e: LET v == e IN Body(v), with e computed once.
Bind(e, Body(_)) == CHOOSE r \in { Body(v) : v \in {e} } : TRUE

\* A sequence given by a function expression, as the list of its values.
List(f) == f \o <<>>

\* s[i] of a string, 1-based.
Chr(s, i) == SubSeq(s, i, i)

\* The characters str.split() and the regex class \s treat as whitespace.
IsSpace(c) == c \in {" ", "\t", "\n", "\r", "\f"}

\* The regex class \d.
IsDigit(c) == c \in {"0", "1", "2", "3", "4", "5", "6", "7", "8", "9"}

\* str.startswith(p)
StartsWith(s, p) == Len(p) <= Len(s) /\ SubSeq(s, 1, Len(p)) = p

\* sub in s
Contains(s, sub) ==
    \E i \in 1..(Len(s) - Len(sub) + 1) : SubSeq(s, i, i + Len(sub) - 1) = sub

\* The elements of a finite set of integers in ascending order.
Ascending(S) ==
    Bind({ <<Cardinality({q \in S : q < p}) + 1, p>> : p \in S }, LAMBDA ranked :
        List([n \in 1..Cardinality(ranked) |-> (CHOOSE r \in ranked : r[1] = n)[2]]))

\* str.split(): the maximal runs of non-whitespace characters, in order.
Split(s) ==
    Bind(s, LAMBDA str :
    Bind({ i \in 1..Len(str) : ~IsSpace(Chr(str, i)) }, LAMBDA black :
    Bind(Ascending({ i \in black : (i - 1) \notin black }), LAMBDA from :
    Bind(Ascending({ i \in black : (i + 1) \notin black }), LAMBDA to :
        List([n \in 1..Len(from) |-> SubSeq(str, from[n], to[n])]) ))))

\* A Python index (or slice bound) i of a list of length n, as a slice clamps it.
SliceBound(i, n) ==
    LET j == IF i < 0 THEN i + n ELSE i
    IN  IF j < 0 THEN 0 ELSE IF j > n THEN n ELSE j

\* lst[a:b] with Python's 0-based bounds, negative bounds counted from the end.
PySlice(lst, a, b) ==
    LET n  == Len(lst)
        lo == SliceBound(a, n)
        hi == SliceBound(b, n)
    IN  IF lo >= hi THEN <<>> ELSE SubSeq(lst, lo + 1, hi)

\* lst[a:]
PySliceFrom(lst, a) == PySlice(lst, a, Len(lst))

\* The least element of a non-empty finite set of integers.
Min(S) == Bind(S, LAMBDA T : CHOOSE x \in T : \A y \in T : x <= y)

\* Faulty variant of PyIndex: the first element that starts with x.
PyIndex_prefix(lst, x) ==
    Bind(lst, LAMBDA l :
    Bind({ i \in 1..Len(l) : StartsWith(l[i], x) }, LAMBDA hits :
        IF hits = {} THEN -1 ELSE Min(hits) - 1 ))

\* list.index(x): the 0-based index of the first element equal to x, -1 standing
\* for the ValueError raised when there is none.
PyIndex(lst, x) ==
    Bind(lst, LAMBDA l :
    Bind({ i \in 1..Len(l) : l[i] = x }, LAMBDA hits :
        IF hits = {} THEN -1 ELSE Min(hits) - 1 ))


\* str.splitlines() of a text whose line breaks are "\n": the pieces between
\* the breaks, without a final empty piece.
SplitLines(s) ==
    Bind(s, LAMBDA str :
    Bind({ i \in 1..Len(str) : Chr(str, i) = "\n" }, LAMBDA breaks :
    Bind(Ascending(IF Len(str) > 0 /\ Chr(str, Len(str)) # "\n"
                   THEN breaks \cup {Len(str) + 1} ELSE breaks), LAMBDA ends :
        List([n \in 1..Len(ends) |->
                 SubSeq(str, IF n = 1 THEN 1 ELSE ends[n - 1] + 1, ends[n] - 1)]) )))

\* str.replace(old, new): the non-overlapping occurrences of old, found left
\* to right, each replaced by new.
RECURSIVE ReplaceFrom(_, _, _, _)
ReplaceFrom(s, old, new, i) ==
    LET occ == { j \in i..(Len(s) - Len(old) + 1) : SubSeq(s, j, j + Len(old) - 1) = old }
        j   == Min(occ)
    IN  IF occ = {} THEN SubSeq(s, i, Len(s))
        ELSE SubSeq(s, i, j - 1) \o new \o ReplaceFrom(s, old, new, j + Len(old))

Replace(s, old, new) == ReplaceFrom(s, old, new, 1)

\* len(re.findall(r"\d\s\s$", line)) == 1 for a line without line breaks: the
\* line ends with a digit and two whitespace characters.
EndsDigitSpaceSpace(line) ==
    LET n == Len(line)
    IN  /\ n >= 3
        /\ IsDigit(Chr(line, n - 2))
        /\ IsSpace(Chr(line, n - 1))
        /\ IsSpace(Chr(line, n))

(***************************************************************************)
(* float(token).  A float is kept as the decimal m * 10^e with m not       *)
(* divisible by 10 (0 is m = 0, e = 0), so that two spellings of one       *)
(* number convert to the same value.                                       *)
(***************************************************************************)
DigitVal(c) == CHOOSE d \in 0..9 : Chr("0123456789", d + 1) = c

\* Every character of s is a digit (and there is at least one).
AllDigits(s) == Len(s) > 0 /\ \A i \in 1..Len(s) : IsDigit(Chr(s, i))

\* The value of a string of digits.
RECURSIVE DigitsValue(_, _, _)
DigitsValue(s, i, acc) ==
    IF i > Len(s) THEN acc ELSE DigitsValue(s, i + 1, 10 * acc + DigitVal(Chr(s, i)))

\* The first position of character c in s, 0 when absent.
RECURSIVE FindChar(_, _, _)
FindChar(s, c, i) ==
    IF i > Len(s) THEN 0 ELSE IF Chr(s, i) = c THEN i ELSE FindChar(s, c, i + 1)

RECURSIVE Normalise(_, _)
Normalise(m, e) ==
    IF m = 0 THEN [m |-> 0, e |-> 0]
    ELSE IF m % 10 = 0 THEN Normalise(m \div 10, e + 1)
    ELSE [m |-> m, e |-> e]

\* An optional sign stripped: <<sign, rest>>.
Signed(s) ==
    IF Len(s) > 0 /\ Chr(s, 1) = "-" THEN <<-1, SubSeq(s, 2, Len(s))>>
    ELSE IF Len(s) > 0 /\ Chr(s, 1) = "+" THEN <<1, SubSeq(s, 2, Len(s))>>
    ELSE <<1, s>>

\* float(tok): [ok |-> TRUE, val |-> the number] for a decimal literal with an
\* optional sign, fraction and exponent; [ok |-> FALSE] for the ValueError any
\* other token raises.
Float(tok) ==
    Bind(Signed(tok), LAMBDA sg :
    Bind(FindChar(sg[2], "E", 1), LAMBDA upper :
    Bind(IF upper > 0 THEN upper ELSE FindChar(sg[2], "e", 1), LAMBDA epos :
    Bind(IF epos = 0 THEN sg[2] ELSE SubSeq(sg[2], 1, epos - 1), LAMBDA mant :
    Bind(Signed(IF epos = 0 THEN "" ELSE SubSeq(sg[2], epos + 1, Len(sg[2]))), LAMBDA esg :
    Bind(FindChar(mant, ".", 1), LAMBDA dot :
    Bind(IF dot = 0 THEN mant ELSE SubSeq(mant, 1, dot - 1), LAMBDA ipart :
    Bind(IF dot = 0 THEN "" ELSE SubSeq(mant, dot + 1, Len(mant)), LAMBDA fpart :
    Bind(ipart \o fpart, LAMBDA digs :
        IF ~(AllDigits(digs) /\ (epos = 0 \/ AllDigits(esg[2])))
        THEN [ok |-> FALSE]
        ELSE [ok |-> TRUE,
              val |-> Normalise(sg[1] * DigitsValue(digs, 1, 0),
                                (IF epos = 0 THEN 0 ELSE esg[1] * DigitsValue(esg[2], 1, 0))
                                   - Len(fpart))] )))))))))

(***************************************************************************)
(* TherCaller.output_block_finder                                          *)
(***************************************************************************)

\* start_idx, end_idx, the two slices and whether list.index raised ValueError.
\* scanned is history: the number of lines of the list the call was given.
output_block_finder(report, start_key, end_key, end_with_subtitle) ==
    LET start_idx == PyIndex(report, start_key)
        end_idx   == PyIndex(report, end_key)
    IN  IF start_idx = -1 \/ end_idx = -1
        THEN [raised |-> TRUE, start_idx |-> start_idx, end_idx |-> end_idx,
              block |-> <<>>, residual_output |-> <<>>, scanned |-> Len(report)]
        ELSE [raised |-> FALSE, start_idx |-> start_idx, end_idx |-> end_idx,
              block |-> IF end_with_subtitle
                        THEN PySlice(report, start_idx, end_idx - 3)
                        ELSE PySlice(report, start_idx, end_idx),
              residual_output |-> PySliceFrom(report, end_idx),
              scanned |-> Len(report)]

(***************************************************************************)
(* The marker lines of read_theriak                                        *)
(***************************************************************************)
start_key_bulk == " composition:        N           N             mol%"
end_key_bulk == " considered phases:"
start_key_Gsys == " equilibrium assemblage:"
end_key_Gsys == "         phase                   N         mol%                                   x              x         activity       act.(x)"
start_key_phases == "         phase                   N         mol%                                   x              x         activity       act.(x)"
end_key_phases == " volumes and densities of stable phases:"
start_key_volume == " volumes and densities of stable phases:"
end_key_volume == " compositions of stable phases [ mol% ]:"
start_key_fluid == "  gases and fluids       N       volume/mol  volume[ccm]               wt/mol       wt [g]              density [g/ccm]"
end_key_fluid == " H2O content of stable phases:"
start_key_elements == " elements in stable phases:"
end_key_elements == " elements per formula unit:"
start_key_composition == " elements per formula unit:"
end_key_composition == " activities of all phases:"
start_key_deltaG == " activities of all phases:"
end_key_deltaG == " chemical potentials of components:"

(***************************************************************************)
(* More list primitives                                                    *)
(***************************************************************************)

\* Whether lst[i] exists for a Python index i (negative: from the end);
\* lst[i] raises IndexError otherwise.
HasIndex(lst, i) == IF i < 0 THEN -i <= Len(lst) ELSE i < Len(lst)

\* lst[i] for a Python index i that exists.
PyAt(lst, i) == lst[IF i < 0 THEN Len(lst) + i + 1 ELSE i + 1]

\* [x for x in lst if Test(x)]
Filter(lst, Test(_)) == SelectSeq(lst, Test)

\* A dict as the sequence of its items in insertion order.  d[k] = v keeps
\* the place of a key that is already there.
DictKeys(d) == [i \in 1..Len(d) |-> d[i].k]

DictHas(d, k) == \E i \in 1..Len(d) : d[i].k = k

DictGet(d, k) == d[CHOOSE i \in 1..Len(d) : d[i].k = k].v

DictSet(d, k, v) ==
    IF DictHas(d, k)
    THEN [i \in 1..Len(d) |-> IF d[i].k = k THEN [k |-> k, v |-> v] ELSE d[i]]
    ELSE Append(d, [k |-> k, v |-> v])

(***************************************************************************)
(* TherCaller.extract_solution_subblocks                                   *)
(***************************************************************************)

\* The 0-based indices of the lines that start with key, ascending.
RECURSIVE IndicesStartingWith(_, _, _, _)
IndicesStartingWith(block, key, i, acc) ==
    IF i > Len(block) THEN acc
    ELSE IndicesStartingWith(block, key, i + 1,
            IF StartsWith(block[i], key) THEN Append(acc, i - 1) ELSE acc)

HasActivityTest(line) == Contains(line, "activity test:")

ReplaceFailFlags(line) == Replace(line, "**", "  ")

\* The body of the loop for one (start_idx, end_idx): the sub-block after the
\* failed-minimisation cut and the line filter, and its solution name.
solution_subblock(block_phases, start_idx, end_idx) ==
    Bind(PySlice(block_phases, start_idx, end_idx), LAMBDA sub0 :
    Bind(\E i \in 1..Len(sub0) : HasActivityTest(sub0[i]), LAMBDA failed :
    Bind(PyIndex(sub0, " "), LAMBDA cut_idx :
    Bind(IF failed
         THEN Bind(PySlice(sub0, 0, cut_idx), LAMBDA c :
                  List([i \in 1..Len(c) |-> ReplaceFailFlags(c[i])]))
         ELSE sub0, LAMBDA sub1 :
    Bind(Filter(sub1, EndsDigitSpaceSpace), LAMBDA sub2 :
        IF failed /\ cut_idx = -1 THEN [err |-> "ValueError"]
        ELSE IF Len(sub2) = 0 THEN [err |-> "IndexError"]
        ELSE Bind(Split(sub2[1]), LAMBDA first :
                 IF ~HasIndex(first, 2) THEN [err |-> "IndexError"]
                 ELSE [err |-> "", failed |-> failed,
                       solution_name |-> PyAt(first, 2), solution_subblock |-> sub2]) )))))

RECURSIVE SubblockLoop(_, _, _, _, _)
SubblockLoop(block_phases, start_indices, end_indices, i, acc) ==
    IF i > Len(start_indices) THEN [err |-> "", val |-> acc]
    ELSE Bind(solution_subblock(block_phases, start_indices[i], end_indices[i]), LAMBDA r :
             IF r.err # "" THEN [err |-> r.err, val |-> <<>>]
             ELSE SubblockLoop(block_phases, start_indices, end_indices, i + 1,
                               DictSet(acc, r.solution_name, r.solution_subblock)))

\* [err, val]: val the dict phase name -> filtered sub-block.
extract_solution_subblocks(block_phases) ==
    LET start_indices == IndicesStartingWith(block_phases, "   0", 1, <<>>)
        end_indices   == IF Len(start_indices) = 0 THEN <<Len(block_phases)>>
                         ELSE Append(Tail(start_indices), Len(block_phases))
    IN  SubblockLoop(block_phases, start_indices, end_indices, 1, <<>>)

(***************************************************************************)
(* TherCaller.read_theriak                                                 *)
(***************************************************************************)
OverflowIndent == "                    "

\* What read_theriak returns once the eight blocks p1..p8 and the solution
\* sub-blocks sub are there: err names the exception that escapes.  The
\* result records, as history, where in the report each pass started to scan
\* and where it found its end marker (0-based line indices, -1 for a pass
\* that raised).
read_theriak_result(p1, p2, p3, p4, p5, p6, p7, p8, sub) ==
    LET fluids_stable == ~p5.raised
        block_fluid   == IF p5.raised THEN <<>> ELSE p5.block
        blocks == [block_bulk |-> p1.block,
                   block_Gsys |-> p2.block,
                   block_phases |-> p3.block,
                   block_solutions |-> sub.val,
                   block_volume |-> p4.block,
                   block_fluid |-> block_fluid,
                   block_elements |-> p6.block,
                   block_composition |-> p7.block,
                   block_deltaG |-> p8.block]
        output_line_overflow ==
            StartsWith(PyAt(p7.block, -1), OverflowIndent)
        header == Split(PyAt(p6.block, 3))
                    \o (IF output_line_overflow THEN Split(PyAt(p6.block, 4)) ELSE <<>>)
        element_list == PySlice(header, 0, -1)
        Raise(e) == [err |-> e, fluids_stable |-> fluids_stable]
        ps == <<p1, p2, p3, p4, p5, p6, p7, p8>>
        passes == List([k \in 1..8 |->
                     [scan_from |-> p1.scanned - ps[k].scanned,
                      end_at |-> IF ps[k].raised THEN -1
                                 ELSE p1.scanned - ps[k].scanned + ps[k].end_idx]])
    IN  IF p1.raised THEN [err |-> "ValueError", fluids_stable |-> FALSE]
        ELSE IF p2.raised \/ p3.raised \/ p4.raised
             THEN [err |-> "ValueError", fluids_stable |-> FALSE]
        ELSE IF p6.raised \/ p7.raised \/ p8.raised THEN Raise("ValueError")
        ELSE IF sub.err # "" THEN Raise(sub.err)
        ELSE IF ~HasIndex(p7.block, -1) THEN Raise("IndexError")
        ELSE IF ~HasIndex(p6.block, 3) THEN Raise("IndexError")
        ELSE IF output_line_overflow /\ ~HasIndex(p6.block, 4) THEN Raise("IndexError")
        ELSE [err |-> "", blocks |-> blocks, element_list |-> element_list,
              output_line_overflow |-> output_line_overflow,
              fluids_stable |-> fluids_stable,
              passes |-> passes]

\* read_theriak(theriak_output): the passes of output_block_finder in the
\* order of the code, each over the residual of the one before it; the volume
\* pass p4 and the fluid pass p5 both read the residual of p3, and a fluid pass
\* that raised leaves that residual to the element pass.
read_theriak(out) ==
    Bind(SplitLines(out), LAMBDA lines :
    Bind(output_block_finder(lines, start_key_bulk, end_key_bulk, TRUE), LAMBDA p1 :
    Bind(output_block_finder(p1.residual_output, start_key_Gsys, end_key_Gsys, FALSE), LAMBDA p2 :
    Bind(output_block_finder(p2.residual_output, start_key_phases, end_key_phases, TRUE), LAMBDA p3 :
    Bind(output_block_finder(p3.residual_output, start_key_volume, end_key_volume, TRUE), LAMBDA p4 :
    Bind(output_block_finder(p3.residual_output, start_key_fluid, end_key_fluid, TRUE), LAMBDA p5 :
    Bind(output_block_finder(IF p5.raised THEN p3.residual_output ELSE p5.residual_output,
                             start_key_elements, end_key_elements, FALSE), LAMBDA p6 :
    Bind(output_block_finder(p6.residual_output, start_key_composition, end_key_composition, TRUE), LAMBDA p7 :
    Bind(output_block_finder(p7.residual_output, start_key_deltaG, end_key_deltaG, TRUE), LAMBDA p8 :
    Bind(extract_solution_subblocks(p3.block), LAMBDA sub :
        read_theriak_result(p1, p2, p3, p4, p5, p6, p7, p8, sub) ))))))))))

(***************************************************************************)
(* Token columns and their conversion                                      *)
(***************************************************************************)

\* [line.split()[i] for line in rows]: [err, val].
Column(rows, i) ==
    Bind(List([r \in 1..Len(rows) |-> Split(rows[r])]), LAMBDA split :
        IF \E r \in 1..Len(split) : ~HasIndex(split[r], i)
        THEN [err |-> "IndexError", val |-> <<>>]
        ELSE [err |-> "", val |-> List([r \in 1..Len(split) |-> PyAt(split[r], i)])] )

\* [float(x) for x in toks]: [err, val].
Floats(toks) ==
    Bind(List([t \in 1..Len(toks) |-> Float(toks[t])]), LAMBDA fl :
        IF \E t \in 1..Len(fl) : ~fl[t].ok
        THEN [err |-> "ValueError", val |-> <<>>]
        ELSE [err |-> "", val |-> List([t \in 1..Len(fl) |-> fl[t].val])] )

\* float(toks[i]): [err, val].
FloatAt(toks, i) ==
    Bind(toks, LAMBDA t :
        IF ~HasIndex(t, i) THEN [err |-> "IndexError"]
        ELSE Bind(Float(PyAt(t, i)), LAMBDA f :
                 IF ~f.ok THEN [err |-> "ValueError"] ELSE [err |-> "", val |-> f.val]) )

\* The first error of a sequence of error names ("" when there is none).
RECURSIVE FirstErr(_)
FirstErr(errs) ==
    IF Len(errs) = 0 THEN ""
    ELSE IF Head(errs) # "" THEN Head(errs) ELSE FirstErr(Tail(errs))

(***************************************************************************)
(* Phase, Mineral, Fluid                                                   *)
(***************************************************************************)

\* The value None, and the value of an attribute no stage has assigned yet.
None == [none |-> TRUE]

\* Phase.__init__
Phase(kind, phase_name) ==
    [kind |-> kind, name |-> phase_name, solution_phase |-> FALSE,
     filled |-> {"name", "solution_phase"},
     n |-> None, vol |-> None, vol_percent |-> None, density |-> None,
     composition_apfu |-> <<>>, composition_moles |-> <<>>,
     endmember_activities |-> <<>>, endmember_fractions |-> <<>>]

\* [i for i in block if i.startswith(prefix + temp_name)]
LinesStartingWith(block, prefix) ==
    LET Test(line) == StartsWith(line, prefix) IN Filter(block, Test)

\* The body shared by Phase.add_composition_apfu and add_composition_moles:
\* [err, val], val the composition vector read from block for temp_name.
phase_composition(block, temp_name, output_line_overflow) ==
    Bind(LinesStartingWith(block, " " \o temp_name), LAMBDA phase_composition_line :
        IF Len(phase_composition_line) = 0 THEN [err |-> "IndexError"]
        ELSE Bind(PyIndex(block, phase_composition_line[1]), LAMBDA idx :
             IF output_line_overflow /\ ~HasIndex(block, idx + 1) THEN [err |-> "IndexError"]
             ELSE Bind(Split(phase_composition_line[1])
                         \o (IF output_line_overflow THEN Split(PyAt(block, idx + 1)) ELSE <<>>),
                       LAMBDA toks :
                  Bind(Floats(PySlice(toks, 1, -1)), LAMBDA fl :
                      IF fl.err # "" THEN [err |-> fl.err]
                      ELSE [err |-> "", val |-> fl.val] ))))

\* Phase.add_composition_apfu: [err, val], val the updated phase.
add_composition_apfu(phase, block_composition, temp_name, output_line_overflow) ==
    Bind(phase_composition(block_composition, temp_name, output_line_overflow), LAMBDA c :
        IF c.err # "" THEN [err |-> c.err]
        ELSE [err |-> "", val |-> [phase EXCEPT !.composition_apfu = c.val,
                                                 !.filled = @ \cup {"composition_apfu"}]] )

\* Phase.add_composition_moles: [err, val], val the updated phase.
add_composition_moles(phase, block_elements, temp_name, output_line_overflow) ==
    Bind(phase_composition(block_elements, temp_name, output_line_overflow), LAMBDA c :
        IF c.err # "" THEN [err |-> c.err]
        ELSE [err |-> "", val |-> [phase EXCEPT !.composition_moles = c.val,
                                                 !.filled = @ \cup {"composition_moles"}]] )

\* The loop of Phase.add_endmember_properties over the split lines.
RECURSIVE EndmemberLoop(_, _, _, _)
EndmemberLoop(lines, i, activities, fractions) ==
    IF i > Len(lines) THEN [err |-> "", activities |-> activities, fractions |-> fractions]
    ELSE Bind(lines[i], LAMBDA line :
         IF ~HasIndex(line, 0) THEN [err |-> "IndexError"]
         ELSE Bind(FloatAt(line, -2), LAMBDA activity :
              IF activity.err # "" THEN [err |-> activity.err]
              ELSE Bind(FloatAt(line, -3), LAMBDA fraction :
                   IF fraction.err # "" THEN [err |-> fraction.err]
                   ELSE EndmemberLoop(lines, i + 1,
                                      DictSet(activities, line[1], activity.val),
                                      DictSet(fractions, line[1], fraction.val)) )))

\* Faulty variant of add_endmember_properties: activity and fraction are read
\* from each other's column.
add_endmember_properties_swapped(phase, solution_phase_subblock) ==
    Bind(List([i \in 1..Len(solution_phase_subblock) |-> Split(solution_phase_subblock[i])]),
         LAMBDA split :
        IF Len(split) = 0 THEN [err |-> "IndexError"]
        ELSE Bind(List([i \in 1..Len(split) |->
                           IF i = 1 THEN PySliceFrom(split[1], 5) ELSE split[i]]), LAMBDA lines :
             Bind(EndmemberLoop(lines, 1, <<>>, <<>>), LAMBDA r :
                 IF r.err # "" THEN [err |-> r.err]
                 ELSE [err |-> "",
                       val |-> [phase EXCEPT !.solution_phase = TRUE,
                                             !.endmember_activities = r.fractions,
                                             !.endmember_fractions = r.activities,
                                             !.filled = @ \cup {"endmember_activities",
                                                                "endmember_fractions"}]] )))

\* Phase.add_endmember_properties: [err, val], val the updated phase.
add_endmember_properties(phase, solution_phase_subblock) ==
    Bind(List([i \in 1..Len(solution_phase_subblock) |-> Split(solution_phase_subblock[i])]),
         LAMBDA split :
        IF Len(split) = 0 THEN [err |-> "IndexError"]
        ELSE Bind(List([i \in 1..Len(split) |->
                           IF i = 1 THEN PySliceFrom(split[1], 5) ELSE split[i]]), LAMBDA lines :
             Bind(EndmemberLoop(lines, 1, <<>>, <<>>), LAMBDA r :
                 IF r.err # "" THEN [err |-> r.err]
                 ELSE [err |-> "",
                       val |-> [phase EXCEPT !.solution_phase = TRUE,
                                             !.endmember_activities = r.activities,
                                             !.endmember_fractions = r.fractions,
                                             !.filled = @ \cup {"endmember_activities",
                                                                "endmember_fractions"}]] )))

\* Mineral.add_phase_properties: [err, val], val the updated mineral.
Mineral_add_phase_properties(phase, block_volume, temp_name) ==
    Bind(LinesStartingWith(block_volume, "  " \o temp_name), LAMBDA found :
        IF Len(found) = 0 THEN [err |-> "IndexError"]
        ELSE Bind(Split(found[1]), LAMBDA phase_properties_line :
             Bind(FloatAt(phase_properties_line, 1), LAMBDA n :
             Bind(FloatAt(phase_properties_line, 3), LAMBDA vol :
             Bind(FloatAt(phase_properties_line, 4), LAMBDA vol_percent :
             Bind(FloatAt(phase_properties_line, -1), LAMBDA density :
             Bind(FirstErr(<<n.err, vol.err, vol_percent.err, density.err>>), LAMBDA err :
                 IF err # "" THEN [err |-> err]
                 ELSE [err |-> "",
                       val |-> [phase EXCEPT !.n = n.val, !.vol = vol.val,
                                             !.vol_percent = vol_percent.val,
                                             !.density = density.val,
                                             !.filled = @ \cup {"n", "vol", "vol_percent",
                                                                "density"}]] )))))))

\* Fluid.add_phase_properties: [err, val], val the updated fluid.
Fluid_add_phase_properties(phase, block_fluid, temp_name) ==
    Bind(LinesStartingWith(block_fluid, "  " \o temp_name), LAMBDA found :
        IF Len(found) = 0 THEN [err |-> "IndexError"]
        ELSE Bind(Split(found[1]), LAMBDA phase_properties_line :
             Bind(FloatAt(phase_properties_line, 1), LAMBDA n :
             Bind(FloatAt(phase_properties_line, 3), LAMBDA vol :
             Bind(FloatAt(phase_properties_line, -1), LAMBDA density :
             Bind(FirstErr(<<n.err, vol.err, density.err>>), LAMBDA err :
                 IF err # "" THEN [err |-> err]
                 ELSE [err |-> "",
                       val |-> [phase EXCEPT !.n = n.val, !.vol = vol.val,
                                             !.density = density.val,
                                             !.filled = @ \cup {"n", "vol", "density"}]] ))))))

(***************************************************************************)
(* Floating-point sums and quotients                                       *)
(***************************************************************************)
RECURSIVE TenTo(_)
TenTo(n) == IF n <= 0 THEN 1 ELSE 10 * TenTo(n - 1)

\* a + b
FAdd(a, b) ==
    LET e == IF a.e < b.e THEN a.e ELSE b.e
    IN  Normalise(a.m * TenTo(a.e - e) + b.m * TenTo(b.e - e), e)

\* np.sum(list): 0.0 for the empty list.
RECURSIVE FSum(_)
FSum(lst) == IF Len(lst) = 0 THEN [m |-> 0, e |-> 0] ELSE FAdd(Head(lst), FSum(Tail(lst)))

RECURSIVE Gcd(_, _)
Gcd(a, b) == IF b = 0 THEN a ELSE Gcd(b, a % b)

Abs(x) == IF x < 0 THEN -x ELSE x

\* a / b for a numpy divisor: the quotient as the fraction num/den * 10^e in
\* lowest terms, or inf/nan (no exception) when b is 0.
FDiv(a, b) ==
    IF b.m = 0 THEN [nonfinite |-> TRUE]
    ELSE LET g == Gcd(Abs(a.m), Abs(b.m))
             s == IF b.m < 0 THEN -1 ELSE 1
         IN  [nonfinite |-> FALSE, num |-> s * (a.m \div g), den |-> s * (b.m \div g),
              e |-> IF a.m = 0 THEN 0 ELSE a.e - b.e]

(***************************************************************************)
(* Rock                                                                    *)
(***************************************************************************)

\* Rock.__init__
Rock(pressure, temperature) ==
    [filled |-> {"mineral_assemblage", "fluid_assemblage", "pressure", "temperature"},
     mineral_assemblage |-> <<>>,
     fluid_assemblage |-> <<>>,
     mineral_delta_G |-> <<>>,
     g_system |-> None,
     pressure |-> pressure,
     temperature |-> temperature,
     bulk_composition_moles |-> <<>>,
     bulk_composition_mol_percent |-> <<>>,
     therin_PT |-> "",
     therin_bulk |-> "",
     bulk_density |-> None,
     g_system_per_mol_of_input |-> None]

\* Rock.add_therin_to_reproduce
add_therin_to_reproduce(r, PT, bulk) ==
    [err |-> "",
     val |-> [r EXCEPT !.therin_PT = PT, !.therin_bulk = bulk,
                       !.filled = @ \cup {"therin_PT", "therin_bulk"}]]

\* Rock.add_bulk_rock_composition
add_bulk_rock_composition(r, block_bulk) ==
    Bind(PySliceFrom(block_bulk, 3), LAMBDA rows :
    Bind(Column(rows, 2), LAMBDA mol_toks :
    Bind(Floats(mol_toks.val), LAMBDA mol :
    Bind(Column(rows, 4), LAMBDA pct_toks :
    Bind(Floats(pct_toks.val), LAMBDA pct :
        IF mol_toks.err # "" THEN [err |-> mol_toks.err]
        ELSE IF mol.err # "" THEN [err |-> mol.err]
        ELSE IF pct_toks.err # "" THEN [err |-> pct_toks.err]
        ELSE IF pct.err # "" THEN [err |-> pct.err]
        ELSE [err |-> "",
              val |-> [r EXCEPT !.bulk_composition_moles = mol.val,
                                !.bulk_composition_mol_percent = pct.val,
                                !.filled = @ \cup {"bulk_composition_moles",
                                                   "bulk_composition_mol_percent"}]] )))))

\* Rock.add_g_system
add_g_system(r, block_Gsys) ==
    IF ~HasIndex(block_Gsys, 7) THEN [err |-> "IndexError"]
    ELSE Bind(FloatAt(Split(PyAt(block_Gsys, 7)), 5), LAMBDA g :
             IF g.err # "" THEN [err |-> g.err]
             ELSE [err |-> "", val |-> [r EXCEPT !.g_system = g.val,
                                                 !.filled = @ \cup {"g_system"}]] )

\* Faulty variant of add_g_system_per_mol: the first bulk row is left out of
\* the sum.
add_g_system_per_mol_without_first(r) ==
    LET sum_mol_input_elements == FSum(PySliceFrom(r.bulk_composition_moles, 1))
    IN  [err |-> "",
         val |-> [r EXCEPT !.g_system_per_mol_of_input = FDiv(r.g_system, sum_mol_input_elements),
                           !.filled = @ \cup {"g_system_per_mol_of_input"}]]

\* Rock.add_g_system_per_mol
add_g_system_per_mol(r) ==
    LET sum_mol_input_elements == FSum(r.bulk_composition_moles)
    IN  [err |-> "",
         val |-> [r EXCEPT !.g_system_per_mol_of_input = FDiv(r.g_system, sum_mol_input_elements),
                           !.filled = @ \cup {"g_system_per_mol_of_input"}]]

SolidsTotal == "  total of solids"

\* Rock.add_bulk_density
add_bulk_density(r, block_volume) ==
    Bind(LinesStartingWith(block_volume, SolidsTotal), LAMBDA found :
        IF Len(found) = 0 THEN [err |-> "IndexError"]
        ELSE Bind(FloatAt(Split(found[1]), -1), LAMBDA d :
                 IF d.err # "" THEN [err |-> d.err]
                 ELSE [err |-> "", val |-> [r EXCEPT !.bulk_density = d.val,
                                                     !.filled = @ \cup {"bulk_density"}]] ))

\* Faulty variant of get_mineral_list: the rows are read from offset 6.
get_mineral_list_from_6(block_volume) ==
    Bind(LinesStartingWith(block_volume, SolidsTotal), LAMBDA found :
        IF Len(found) = 0 THEN [err |-> "IndexError", val |-> <<>>]
        ELSE Column(PySlice(block_volume, 6, PyIndex(block_volume, found[1]) - 1), 0) )

\* Rock.get_mineral_list: [err, val].
get_mineral_list(block_volume) ==
    LET start_idx == 5
    IN  Bind(LinesStartingWith(block_volume, SolidsTotal), LAMBDA found :
            IF Len(found) = 0 THEN [err |-> "IndexError", val |-> <<>>]
            ELSE Bind(PyIndex(block_volume, found[1]) - 1, LAMBDA end_idx :
                     Column(PySlice(block_volume, start_idx, end_idx), 0)) )

\* Rock.get_fluid_list: [err, val].
get_fluid_list(block_fluid) ==
    LET start_idx == 2
    IN  Column(PySliceFrom(block_fluid, start_idx), 0)

\* One pass of the loop of Rock.add_minerals: [err, val], val the Mineral.
new_mineral(temp_name, block_volume, block_solutions, block_composition, block_elements, output_line_overflow) ==
    Bind(Mineral_add_phase_properties(Phase("Mineral", temp_name), block_volume, temp_name),
         LAMBDA m1 :
        IF m1.err # "" THEN m1
        ELSE Bind(add_composition_apfu(m1.val, block_composition, temp_name,
                                       output_line_overflow), LAMBDA m2 :
             IF m2.err # "" THEN m2
             ELSE Bind(add_composition_moles(m2.val, block_elements, temp_name,
                                             output_line_overflow), LAMBDA m3 :
                  IF m3.err # "" THEN m3
                  ELSE IF DictHas(block_solutions, temp_name)
                       THEN add_endmember_properties(m3.val, DictGet(block_solutions, temp_name))
                       ELSE m3 )))

\* One pass of the loop of Rock.add_fluids: [err, val], val the Fluid.
new_fluid(fluid_name, block_fluid, block_solutions, block_composition, block_elements, output_line_overflow) ==
    Bind(Fluid_add_phase_properties(Phase("Fluid", fluid_name), block_fluid, fluid_name),
         LAMBDA f1 :
        IF f1.err # "" THEN f1
        ELSE Bind(add_composition_apfu(f1.val, block_composition, fluid_name,
                                       output_line_overflow), LAMBDA f2 :
             IF f2.err # "" THEN f2
             ELSE Bind(add_composition_moles(f2.val, block_elements, fluid_name,
                                             output_line_overflow), LAMBDA f3 :
                  IF f3.err # "" THEN f3
                  ELSE IF DictHas(block_solutions, fluid_name)
                       THEN add_endmember_properties(f3.val, DictGet(block_solutions, fluid_name))
                       ELSE f3 )))

\* Rock.add_minerals
add_minerals(r, block_volume, block_solutions, block_composition, block_elements, output_line_overflow) ==
    Bind(get_mineral_list(block_volume), LAMBDA temp_name_list :
        IF temp_name_list.err # "" THEN [err |-> temp_name_list.err]
        ELSE Bind(List([i \in 1..Len(temp_name_list.val) |->
                           new_mineral(temp_name_list.val[i], block_volume, block_solutions,
                                       block_composition, block_elements,
                                       output_line_overflow)]), LAMBDA made :
             Bind(FirstErr(List([i \in 1..Len(made) |-> made[i].err])), LAMBDA err :
                 IF err # "" THEN [err |-> err]
                 ELSE [err |-> "",
                       val |-> [r EXCEPT !.mineral_assemblage =
                                             @ \o List([i \in 1..Len(made) |-> made[i].val])]] )))

\* Rock.add_fluids
add_fluids(r, block_fluid, block_solutions, block_composition, block_elements, output_line_overflow) ==
    Bind(get_fluid_list(block_fluid), LAMBDA fluid_name_list :
        IF fluid_name_list.err # "" THEN [err |-> fluid_name_list.err]
        ELSE Bind(List([i \in 1..Len(fluid_name_list.val) |->
                           new_fluid(fluid_name_list.val[i], block_fluid, block_solutions,
                                     block_composition, block_elements,
                                     output_line_overflow)]), LAMBDA made :
             Bind(FirstErr(List([i \in 1..Len(made) |-> made[i].err])), LAMBDA err :
                 IF err # "" THEN [err |-> err]
                 ELSE [err |-> "",
                       val |-> [r EXCEPT !.fluid_assemblage =
                                             @ \o List([i \in 1..Len(made) |-> made[i].val])]] )))

Delimiter == "--------------------------------------------------------------------"
ZeroSentinel == "0.00000E+00"

IsMetastableRow(line) == StartsWith(line, " S") \/ StartsWith(line, " P")

\* dict(zip(names, values))
RECURSIVE DictZip(_, _, _, _)
DictZip(names, values, i, acc) ==
    IF i > Len(names) \/ i > Len(values) THEN acc
    ELSE DictZip(names, values, i + 1, DictSet(acc, names[i], values[i]))

\* Faulty variant of add_deltaG: the rows are collected from the whole table,
\* the stable phases above the delimiter included.
add_deltaG_whole_table(r, block_deltaG) ==
    Bind(PySliceFrom(block_deltaG, 5), LAMBDA body :
    Bind(PyIndex(body, Delimiter), LAMBDA delimiter :
        IF delimiter = -1 THEN [err |-> "ValueError"]
        ELSE
    Bind(Filter(body, IsMetastableRow), LAMBDA rows :
    Bind(List([i \in 1..Len(rows) |-> Split(rows[i])]), LAMBDA metastable_list :
    Bind(List([i \in 1..Len(rows) |-> PyIndex(metastable_list[i], ZeroSentinel)]),
         LAMBDA idx_of_firstZEROS :
    Bind(List([i \in 1..Len(rows) |-> FloatAt(metastable_list[i], idx_of_firstZEROS[i] + 1)]),
         LAMBDA vals :
        IF \E i \in 1..Len(rows) : idx_of_firstZEROS[i] = -1 THEN [err |-> "ValueError"]
        ELSE IF \E i \in 1..Len(rows) : ~HasIndex(metastable_list[i], 2)
             THEN [err |-> "IndexError"]
        ELSE IF \E i \in 1..Len(rows) : vals[i].err = "IndexError" THEN [err |-> "IndexError"]
        ELSE IF \E i \in 1..Len(rows) : vals[i].err # "" THEN [err |-> "ValueError"]
        ELSE [err |-> "",
              val |-> [r EXCEPT !.mineral_delta_G =
                                    DictZip(List([i \in 1..Len(rows) |-> metastable_list[i][3]]),
                                            List([i \in 1..Len(rows) |-> vals[i].val]), 1, <<>>),
                                !.filled = @ \cup {"mineral_delta_G"}]] ))))))

\* Rock.add_deltaG
add_deltaG(r, block_deltaG) ==
    Bind(PySliceFrom(block_deltaG, 5), LAMBDA body :
    Bind(PyIndex(body, Delimiter), LAMBDA delimiter :
        IF delimiter = -1 THEN [err |-> "ValueError"]
        ELSE
    Bind(Filter(PySliceFrom(body, delimiter + 1), IsMetastableRow), LAMBDA rows :
    Bind(List([i \in 1..Len(rows) |-> Split(rows[i])]), LAMBDA metastable_list :
    Bind(List([i \in 1..Len(rows) |-> PyIndex(metastable_list[i], ZeroSentinel)]),
         LAMBDA idx_of_firstZEROS :
    Bind(List([i \in 1..Len(rows) |-> FloatAt(metastable_list[i], idx_of_firstZEROS[i] + 1)]),
         LAMBDA vals :
        IF \E i \in 1..Len(rows) : idx_of_firstZEROS[i] = -1 THEN [err |-> "ValueError"]
        ELSE IF \E i \in 1..Len(rows) : ~HasIndex(metastable_list[i], 2)
             THEN [err |-> "IndexError"]
        ELSE IF \E i \in 1..Len(rows) : vals[i].err = "IndexError" THEN [err |-> "IndexError"]
        ELSE IF \E i \in 1..Len(rows) : vals[i].err # "" THEN [err |-> "ValueError"]
        ELSE [err |-> "",
              val |-> [r EXCEPT !.mineral_delta_G =
                                    DictZip(List([i \in 1..Len(rows) |-> metastable_list[i][3]]),
                                            List([i \in 1..Len(rows) |-> vals[i].val]), 1, <<>>),
                                !.filled = @ \cup {"mineral_delta_G"}]] ))))))

(***************************************************************************)
(* The reports call_theriak can return.  theriak is an external program;   *)
(* its report is laid out as read_theriak and the Rock methods expect it   *)
(* (marker lines, title rows, fixed row offsets; the literal blocks of     *)
(* tests/test_wrapper.py), for a choice of elements, stable minerals and   *)
(* fluid, with one optional defect.                                        *)
(***************************************************************************)

\* Most elements in a bulk composition.
MaxElems == 4

\* Table columns theriak prints on one physical line before it wraps.
ColumnsPerLine == 2

ElementNames == <<"O", "SI", "AL", "H", "CA", "MG">>

Spaces(n) == SubSeq("                                                                ", 1, n)

PadRight(str, w) == IF Len(str) >= w THEN str ELSE str \o Spaces(w - Len(str))

RECURSIVE Concat(_)
Concat(strs) == IF Len(strs) = 0 THEN "" ELSE Head(strs) \o Concat(Tail(strs))

\* The numbers theriak prints, by phase number and column.
NumberTokens == <<"1.000000", "2.500000", "0.000000", "3.000000", "0.500000">>

Num(p, j) == NumberTokens[((2 * p + j) % Len(NumberTokens)) + 1]

\* The phases of the database: name, number, endmembers (phases printed with
\* the solution prefix only; ab is printed so with itself as only endmember).
PhaseNumber(name) ==
    CASE name = "PLC1_abh" -> 1
      [] name = "q" -> 2
      [] name = "and" -> 3
      [] name = "an" -> 4
      [] name = "H2O" -> 5
      [] OTHER -> 6

Endmembers(name) ==
    CASE name = "PLC1_abh" -> <<"abh", "an">>
      [] name = "ab" -> <<"ab">>
      [] OTHER -> <<>>

\* The stable mineral assemblages theriak may report.
MineralLists ==
    { <<"q">>, <<"PLC1_abh", "q">>, <<"and", "an">>, <<"an", "and", "q">>, <<"ab", "q">> }

\* One table row printed over as many physical lines as its columns need.
RECURSIVE WrapColumns(_, _, _)
WrapColumns(label, cols, acc) ==
    IF Len(cols) <= ColumnsPerLine
    THEN Append(acc, label \o Concat(cols))
    ELSE WrapColumns(Spaces(18), SubSeq(cols, ColumnsPerLine + 1, Len(cols)),
                     Append(acc, label \o Concat(SubSeq(cols, 1, ColumnsPerLine))))

TableRow(label, toks) ==
    WrapColumns(PadRight(label, 18), [i \in 1..Len(toks) |-> "   " \o PadRight(toks[i], 8)], <<>>)

\* A sequence of sequences of lines, flattened.
RECURSIVE Flatten(_)
Flatten(ls) == IF Len(ls) = 0 THEN <<>> ELSE Head(ls) \o Flatten(Tail(ls))

\* Section 1: the bulk composition table, one row per element and the E row.
BulkSection(k) ==
    <<" THERIAK", " ", start_key_bulk, " -----------", " ">>
    \o [j \in 1..k.nel |->
          "   " \o Chr("123456789", j) \o "   " \o PadRight(ElementNames[j], 6) \o "  "
                \o Num(0, j) \o "   " \o Num(0, j)
                \o "   " \o Num(7, j)]
    \o <<"   0   E         0.000000   0.000000   0.000000", " ", " ------------------",
         end_key_bulk, " ------------------", " q and an PLC1_abh H2O", " ">>

\* Section 2: the summary that holds G(System) on its 8th line.
GsysSection(k) ==
    <<" -----------------------", start_key_Gsys, " -----------------------", " ",
      " P =  4000.00 bar     T =   550.00 C", " ", " stable phases: " , " ",
      "  gibbs free energy: G(System) =      -205.250000", " ">>

\* The rows of one solution's sub-block: endmember rows end with a digit and
\* two spaces, the site-occupancy row does not.  In a failed minimisation the
\* activities are flagged ** and an activity test follows a blank line.
SolutionRows(name, failed) ==
    LET em   == Endmembers(name)
        flag == IF failed THEN " ** " ELSE "    "
        Row(i) == PadRight(em[i], 8) \o "  " \o Num(i, 1) \o "  " \o Num(i, 2) \o flag
                     \o Num(i, 3) \o "  " \o Num(i, 4) \o "  "
    IN  <<"   0 1 " \o PadRight(name, 10) \o "  4.556800  18.627600   " \o Row(1)>>
        \o [i \in 1..(Len(em) - 1) |-> Spaces(42) \o Row(i + 1)]
        \o <<Spaces(42) \o "XAn = 0.071550">>
        \o (IF failed THEN <<" ", Spaces(20) \o "** activity test: " \o em[1] \o "  1.250000  ">>
            ELSE <<>>)

\* Section 3: the equilibrium assemblage.
PhasesSection(k) ==
    <<start_key_phases, "         -----                   -         ----">>
    \o Flatten([i \in 1..Len(k.mins) |->
          IF Endmembers(k.mins[i]) # <<>>
          THEN SolutionRows(k.mins[i], k.defect = "failed")
          ELSE <<"   1 1 " \o PadRight(k.mins[i], 10) \o "  20.476800  18.964600">>])
    \o <<" ", " ", " ---------------------------------------">>

\* Section 4: volumes and densities, with the fluid and H2O tables.
VolumeSection(k) ==
    <<start_key_volume, " ---------------------------------------", "",
      "  solid phases           N       volume/mol  volume[ccm]    vol%  |    wt/mol       wt [g]      wt %  | density [g/ccm]",
      "  ------------                                                    |                                   |                ">>
    \o [i \in 1..Len(k.mins) |->
          "  " \o PadRight(k.mins[i], 16) \o "   " \o Num(PhaseNumber(k.mins[i]), 1) \o "   101.029200   "
               \o Num(PhaseNumber(k.mins[i]), 2) \o "   " \o Num(PhaseNumber(k.mins[i]), 3)
               \o " |   263.367300   1200.117600   17.084500 |     "
               \o (IF k.defect = "bad_number" /\ i = Len(k.mins)
                   THEN "********" ELSE Num(PhaseNumber(k.mins[i]), 4))]
    \o <<"                                             ----------  -------- |              ----------  -------- |   ----------",
         "  total of solids                             2471.4548  100.0000 |               7024.6136  100.0000 |     2.842299",
         " ", "">>
    \o (IF k.fluid
        THEN <<start_key_fluid,
               "  ----------------                                                                                                     ",
               "  H2O                 35.8638      18.6578      669.138                18.0153     646.0963                 0.965565",
               "", "", " -----------------------------">>
        ELSE <<" -----------------------------">>)
    \o <<end_key_fluid, " -----------------------------",
         "  solid phases           N      H2O[pfu]    H2O[mol]     H2O [g]  |   phase      solids     H2O.solid",
         "  ------------                                                    |">>
    \o [i \in 1..Len(k.mins) |->
          "  " \o PadRight(k.mins[i], 16) \o "   6.987700     1.000       6.9877     125.8862 |   4.51002"]
    \o <<"                                            --------   ---------- |             --------",
         "  total H2O in solids                        14.1362     254.6677 |              3.62536",
         " ", "", " ---------------------------------------">>

PhaseRows(k) == k.mins \o (IF k.fluid THEN <<"H2O">> ELSE <<>>)

\* The compositions table that read_theriak skips.
MolPercentSection(k) ==
    <<end_key_volume, " ---------------------------------------", "">>

\* Section 6: elements in stable phases.
ElementsSection(k) ==
    <<start_key_elements, " --------------------------", "">>
    \o TableRow("", Append(SubSeq(ElementNames, 1, k.nel), "E"))
    \o Flatten([i \in 1..Len(PhaseRows(k)) |->
          TableRow(" " \o PhaseRows(k)[i],
                   Append([j \in 1..k.nel |-> Num(PhaseNumber(PhaseRows(k)[i]), j)], "0.000000"))])
    \o TableRow(" total:", Append([j \in 1..k.nel |-> Num(0, j)], "0.000000"))
    \o <<"">>

\* Section 7: elements per formula unit.
CompositionSection(k) ==
    <<start_key_composition, " ">>
    \o Flatten([i \in 1..Len(PhaseRows(k)) |->
          TableRow(" " \o PhaseRows(k)[i],
                   Append([j \in 1..k.nel |-> Num(PhaseNumber(PhaseRows(k)[i]), j + 1)], "0.000000"))])
    \o <<" ", "", " -------------------------">>

\* Section 8: activities of all phases, stable rows above the delimiter.
DeltaGSection(k) ==
    <<start_key_deltaG, " -------------------------", "",
      "      phase      G", "      -----      -">>
    \o [i \in 1..Len(k.mins) |->
          " S   1 " \o PadRight(k.mins[i], 10) \o "  " \o ZeroSentinel \o "  " \o ZeroSentinel]
    \o <<Delimiter,
         " S   7 ky          -1.25000E+02  " \o ZeroSentinel \o "  1.50000E+03  2.00000E+00",
         " P   8 sill          " \o ZeroSentinel \o "  2.50000E+02",
         "     9 FLUID         " \o ZeroSentinel \o "  9.00000E+00",
         " ", "", " ----------------------------------">>
    \o <<end_key_deltaG, " ----------------------------------", " ">>

\* The lines of the report for configuration k, before its defect.
ReportLines(k) ==
    BulkSection(k) \o GsysSection(k) \o PhasesSection(k) \o VolumeSection(k)
        \o MolPercentSection(k) \o ElementsSection(k) \o CompositionSection(k)
        \o DeltaGSection(k)

\* lst without the lines equal to x.
Without(lst, x) == LET Keep(l) == l # x IN Filter(lst, Keep)

\* lst without its element at 0-based index i.
WithoutIndex(lst, i) == PySlice(lst, 0, i) \o PySliceFrom(lst, i + 1)

\* The marker lines a report may lack.
Markers ==
    { start_key_bulk, end_key_bulk, start_key_Gsys, start_key_phases, start_key_volume,
      end_key_volume, start_key_fluid, end_key_fluid, start_key_elements,
      start_key_composition, start_key_deltaG, end_key_deltaG }

\* The defects: a failed minimisation, a missing marker line, a bulk table
\* that lacks the row of one element, a density printed as asterisks (a
\* number too wide for its field), a volumes table without its solids total.
Defects == {"none", "failed", "bulk_short", "bad_number", "no_total"} \cup Markers

IsSolidsTotal(line) == StartsWith(line, SolidsTotal)

Defective(k) ==
    LET lines == ReportLines(k)
    IN  IF k.defect \in Markers THEN Without(lines, k.defect)
        ELSE IF k.defect = "bulk_short"
             THEN WithoutIndex(lines, PyIndex(lines, start_key_bulk) + 3)
        ELSE IF k.defect = "no_total"
             THEN WithoutIndex(lines, Min({i \in 1..Len(lines) : IsSolidsTotal(lines[i])}) - 1)
        ELSE lines

\* "\n".join(lines) + "\n"
RECURSIVE JoinLines(_)
JoinLines(lines) ==
    IF Len(lines) = 0 THEN ""
    ELSE IF Len(lines) = 1 THEN lines[1] \o "\n"
    ELSE LET half == Len(lines) \div 2
         IN  JoinLines(SubSeq(lines, 1, half)) \o JoinLines(SubSeq(lines, half + 1, Len(lines)))

\* The text of the report for configuration k.
Report(k) == JoinLines(Defective(k))

\* The configurations: every choice without defect, and each defect on the
\* assemblage with a solution phase.
Configs ==
    { [nel |-> n, mins |-> m, fluid |-> f, defect |-> "none"] :
          n \in 1..MaxElems, m \in MineralLists, f \in BOOLEAN }
    \cup { [nel |-> ColumnsPerLine, mins |-> <<"PLC1_abh", "q">>, fluid |-> f, defect |-> d] :
          f \in BOOLEAN, d \in Defects }

(***************************************************************************)
(* Specification SpecFinder: output_block_finder applied to every short    *)
(* report over a vocabulary of marker-like lines.                          *)
(***************************************************************************)

\* Longest report handed to output_block_finder.
MaxReportLen == 4

\* The markers, a line that only starts with the start marker, a line that
\* only contains the end marker after extra indentation, and a data line.
FinderLines ==
    { start_key_volume, end_key_volume,
      start_key_volume \o " ", " " \o end_key_volume,
      "  total of solids" }

FinderReports == UNION { [1..n -> FinderLines] : n \in 0..MaxReportLen }

NoFinder == [called |-> FALSE]
NoCaller == [verbose_mode |-> FALSE]
NoArgs == [none |-> TRUE]
NoRun == [none |-> TRUE]
NoRead == [none |-> TRUE]
NoRock == [none |-> TRUE]
NoReturn == [kind |-> "none"]

FinderInit ==
    /\ pc = "finder"
    /\ \E r \in FinderReports :
          fnd = [called |-> FALSE, theriak_output |-> r,
                 start_key |-> start_key_volume, end_key |-> end_key_volume]
    /\ tc = NoCaller
    /\ args = NoArgs
    /\ theriak_run = NoRun
    /\ theriak_output = ""
    /\ rd = NoRead
    /\ rock = NoRock
    /\ ret = NoReturn

\* One call output_block_finder(theriak_output, start_key, end_key, b).
FinderCall ==
    /\ pc = "finder"
    /\ \E b \in BOOLEAN :
          LET r == output_block_finder(fnd.theriak_output, fnd.start_key, fnd.end_key, b)
          IN  /\ fnd' = [called |-> TRUE, theriak_output |-> fnd.theriak_output,
                         start_key |-> fnd.start_key, end_key |-> fnd.end_key,
                         end_with_subtitle |-> b, res |-> r]
              /\ pc' = IF r.raised THEN "finder_raised" ELSE "finder_returned"
    /\ UNCHANGED <<tc, args, theriak_run, theriak_output, rd, rock, ret>>

FinderNext == FinderCall

SpecFinder == FinderInit /\ [][FinderNext]_vars


(***************************************************************************)
(* Specification Spec: calls of TherCaller.minimisation on one TherCaller, *)
(* each running call_theriak, check_minimisation, read_theriak and the     *)
(* stages of create_rock in the order of the code.                         *)
(***************************************************************************)

\* str(n) of an int.
RECURSIVE NatToStr(_)
NatToStr(n) ==
    IF n < 10 THEN Chr("0123456789", n + 1)
    ELSE NatToStr(n \div 10) \o Chr("0123456789", (n % 10) + 1)

Str(n) == IF n < 0 THEN "-" \o NatToStr(-n) ELSE NatToStr(n)

\* The (pressure, temperature, bulk) a caller passes.
CallInputs ==
    { [pressure |-> 4000, temperature |-> 550, bulk |-> "AL(2)SI(1)H(100)O(?)"],
      [pressure |-> 6046, temperature |-> 417, bulk |-> "SI(68.2)AL(25.18)H(100)O(?)"] }

\* TherCaller.__init__: pressure, temperature, therin_PT and therin_bulk do
\* not exist until call_theriak assigns them (has_therin).
TherCaller(verbose) ==
    [verbose_mode |-> verbose, has_therin |-> FALSE,
     pressure |-> 0, temperature |-> 0, therin_PT |-> "", therin_bulk |-> ""]

Init ==
    /\ pc = "idle"
    /\ fnd = NoFinder
    /\ \E verbose \in BOOLEAN : tc = TherCaller(verbose)
    /\ args = NoArgs
    /\ theriak_run = NoRun
    /\ theriak_output = ""
    /\ rd = NoRead
    /\ rock = NoRock
    /\ ret = NoReturn

\* A caller invokes minimisation(pressure, temperature, bulk, return_failed_minimisation).
minimisation ==
    /\ pc = "idle"
    /\ \E in \in CallInputs, return_failed_minimisation \in BOOLEAN :
          args' = [pressure |-> in.pressure, temperature |-> in.temperature, bulk |-> in.bulk,
                   return_failed_minimisation |-> return_failed_minimisation,
                   \* history: the TherCaller holds the values of an earlier call
                   \* made with other arguments
                   after_other_call |-> tc.has_therin /\ tc.pressure # in.pressure]
    /\ pc' = "call_theriak"
    /\ UNCHANGED <<fnd, tc, theriak_run, theriak_output, rd, rock, ret>>

\* Faulty variant of call_theriak: the THERIN lines are built on the first
\* call only and reused afterwards.
call_theriak_keeps_therin ==
    /\ pc = "call_theriak"
    /\ tc' = [tc EXCEPT !.has_therin = TRUE,
                        !.pressure = args.pressure,
                        !.temperature = args.temperature,
                        !.therin_PT = IF tc.has_therin THEN @
                                      ELSE "    " \o Str(args.temperature) \o "    " \o Str(args.pressure),
                        !.therin_bulk = IF tc.has_therin THEN @ ELSE "1   " \o args.bulk \o "    *"]
    /\ \E k \in Configs :
          /\ theriak_run' = [nel |-> k.nel, mins |-> k.mins, fluid |-> k.fluid,
                              defect |-> k.defect,
                              THERIN |-> tc'.therin_PT \o "\n" \o tc'.therin_bulk]
          /\ theriak_output' = Report(k)
    /\ pc' = "check_minimisation"
    /\ UNCHANGED <<fnd, args, rd, rock, ret>>

\* TherCaller.call_theriak: stores the arguments and the THERIN lines on the
\* TherCaller, writes the THERIN file, runs theriak and takes its report.
call_theriak ==
    /\ pc = "call_theriak"
    /\ tc' = [tc EXCEPT !.has_therin = TRUE,
                        !.pressure = args.pressure,
                        !.temperature = args.temperature,
                        !.therin_PT = "    " \o Str(args.temperature) \o "    " \o Str(args.pressure),
                        !.therin_bulk = "1   " \o args.bulk \o "    *"]
    /\ \E k \in Configs :
          /\ theriak_run' = [nel |-> k.nel, mins |-> k.mins, fluid |-> k.fluid,
                              defect |-> k.defect,
                              THERIN |-> tc'.therin_PT \o "\n" \o tc'.therin_bulk]
          /\ theriak_output' = Report(k)
    /\ pc' = "check_minimisation"
    /\ UNCHANGED <<fnd, args, rd, rock, ret>>

\* TherCaller.check_minimisation
minimisation_state(out) == ~Contains(out, "activity test")

\* Faulty variant of check_minimisation: the report is read whatever its state.
check_minimisation_always_reads ==
    /\ pc = "check_minimisation"
    /\ pc' = "read_theriak"
    /\ UNCHANGED <<fnd, tc, args, theriak_run, theriak_output, rd, rock, ret>>

\* check_minimisation and the branch of minimisation on its result.
check_minimisation ==
    /\ pc = "check_minimisation"
    /\ IF minimisation_state(theriak_output) \/ args.return_failed_minimisation
       THEN /\ pc' = "read_theriak"
            /\ ret' = ret
       ELSE /\ pc' = "done"
            /\ ret' = [kind |-> "raw", theriak_output |-> theriak_output, element_list |-> <<>>]
    /\ UNCHANGED <<fnd, tc, args, theriak_run, theriak_output, rd, rock>>

\* An exception leaves minimisation: nothing is returned; the traceback names
\* the step that raised.
Raise(e) ==
    /\ pc' = "raised"
    /\ ret' = [kind |-> "error", err |-> e, at |-> pc]
    /\ rock' = NoRock

\* TherCaller.read_theriak
read_theriak_call ==
    /\ pc = "read_theriak"
    /\ \E r \in {read_theriak(theriak_output)} :
          IF r.err # ""
          THEN /\ Raise(r.err)
               /\ rd' = rd
          ELSE /\ rd' = r
               /\ pc' = "Rock"
               /\ UNCHANGED <<rock, ret>>
    /\ UNCHANGED <<fnd, tc, args, theriak_run, theriak_output>>

\* A stage of create_rock that ran to r: the Rock is updated and the next
\* stage is due, or the stage's exception leaves create_rock.
Stage(result, next) ==
    /\ \E r \in {result} :
          IF r.err # ""
          THEN Raise(r.err)
          ELSE /\ rock' = r.val
               /\ pc' = next
               /\ ret' = ret
    /\ UNCHANGED <<fnd, tc, args, theriak_run, theriak_output, rd>>

\* Faulty variant of create_rock_Rock: the phase lists are attributes of the
\* class, so a new Rock starts with the phases of the Rock built before it.
create_rock_Rock_class_lists ==
    /\ pc = "Rock"
    /\ Stage(IF tc.has_therin
             THEN [err |-> "",
                   val |-> [Rock(tc.pressure, tc.temperature) EXCEPT
                               !.mineral_assemblage =
                                   IF rock = NoRock THEN <<>> ELSE rock.mineral_assemblage,
                               !.fluid_assemblage =
                                   IF rock = NoRock THEN <<>> ELSE rock.fluid_assemblage]]
             ELSE [err |-> "AttributeError"],
             "add_therin_to_reproduce")

\* Faulty variant of create_rock_Rock: a TherCaller that never ran
\* call_theriak has pressure and temperature 0 and empty THERIN lines.
create_rock_Rock_default_attributes ==
    /\ pc = "Rock"
    /\ Stage([err |-> "", val |-> Rock(tc.pressure, tc.temperature)], "add_therin_to_reproduce")

\* create_rock: rock = Rock(pressure=self.pressure, temperature=self.temperature)
create_rock_Rock ==
    /\ pc = "Rock"
    /\ Stage(IF tc.has_therin THEN [err |-> "", val |-> Rock(tc.pressure, tc.temperature)]
             ELSE [err |-> "AttributeError"],
             "add_therin_to_reproduce")

create_rock_add_therin_to_reproduce ==
    /\ pc = "add_therin_to_reproduce"
    /\ Stage(add_therin_to_reproduce(rock, tc.therin_PT, tc.therin_bulk),
             "add_bulk_rock_composition")

create_rock_add_bulk_rock_composition ==
    /\ pc = "add_bulk_rock_composition"
    /\ Stage(add_bulk_rock_composition(rock, rd.blocks.block_bulk), "add_g_system")

create_rock_add_g_system ==
    /\ pc = "add_g_system"
    /\ Stage(add_g_system(rock, rd.blocks.block_Gsys), "add_bulk_density")

create_rock_add_bulk_density ==
    /\ pc = "add_bulk_density"
    /\ Stage(add_bulk_density(rock, rd.blocks.block_volume), "add_minerals")

\* Faulty variant of create_rock_add_minerals: the fluid stage always follows.
create_rock_add_minerals_then_fluids ==
    /\ pc = "add_minerals"
    /\ Stage(add_minerals(rock, rd.blocks.block_volume, rd.blocks.block_solutions,
                          rd.blocks.block_composition, rd.blocks.block_elements,
                          rd.output_line_overflow),
             "add_fluids")

\* Faulty variant of create_rock_add_minerals: the rows of the minerals are
\* read as single lines whatever read_theriak found.
create_rock_add_minerals_single_line ==
    /\ pc = "add_minerals"
    /\ Stage(add_minerals(rock, rd.blocks.block_volume, rd.blocks.block_solutions,
                          rd.blocks.block_composition, rd.blocks.block_elements,
                          FALSE),
             IF rd.fluids_stable THEN "add_fluids" ELSE "add_deltaG")

create_rock_add_minerals ==
    /\ pc = "add_minerals"
    /\ Stage(add_minerals(rock, rd.blocks.block_volume, rd.blocks.block_solutions,
                          rd.blocks.block_composition, rd.blocks.block_elements,
                          rd.output_line_overflow),
             IF rd.fluids_stable THEN "add_fluids" ELSE "add_deltaG")

\* Faulty variant of create_rock_add_fluids: the fluids are appended to the
\* mineral list as well.
create_rock_add_fluids_into_minerals ==
    /\ pc = "add_fluids"
    /\ \E r \in {add_fluids(rock, rd.blocks.block_fluid, rd.blocks.block_solutions,
                            rd.blocks.block_composition, rd.blocks.block_elements,
                            rd.output_line_overflow)} :
          Stage(IF r.err # "" THEN r
                ELSE [err |-> "",
                      val |-> [r.val EXCEPT !.mineral_assemblage = @ \o r.val.fluid_assemblage]],
                "add_deltaG")

create_rock_add_fluids ==
    /\ pc = "add_fluids"
    /\ Stage(add_fluids(rock, rd.blocks.block_fluid, rd.blocks.block_solutions,
                        rd.blocks.block_composition, rd.blocks.block_elements,
                        rd.output_line_overflow),
             "add_deltaG")

create_rock_add_deltaG ==
    /\ pc = "add_deltaG"
    /\ Stage(add_deltaG(rock, rd.blocks.block_deltaG), "add_g_system_per_mol")

create_rock_add_g_system_per_mol ==
    /\ pc = "add_g_system_per_mol"
    /\ Stage(add_g_system_per_mol(rock), "return")

\* return rock, element_list
minimisation_return ==
    /\ pc = "return"
    /\ ret' = [kind |-> "rock", rock |-> rock, element_list |-> rd.element_list]
    /\ pc' = "done"
    /\ UNCHANGED <<fnd, tc, args, theriak_run, theriak_output, rd, rock>>

\* The caller has the result (or the exception); the TherCaller is ready for
\* its next call, the locals of the finished one are gone.
next_call ==
    /\ pc \in {"done", "raised"}
    /\ pc' = "idle"
    /\ args' = NoArgs
    /\ theriak_run' = NoRun
    /\ theriak_output' = ""
    /\ rd' = NoRead
    /\ rock' = NoRock
    /\ ret' = NoReturn
    /\ UNCHANGED <<fnd, tc>>

Next ==
    \/ minimisation
    \/ call_theriak
    \/ check_minimisation
    \/ read_theriak_call
    \/ create_rock_Rock
    \/ create_rock_add_therin_to_reproduce
    \/ create_rock_add_bulk_rock_composition
    \/ create_rock_add_g_system
    \/ create_rock_add_bulk_density
    \/ create_rock_add_minerals
    \/ create_rock_add_fluids
    \/ create_rock_add_deltaG
    \/ create_rock_add_g_system_per_mol
    \/ minimisation_return
    \/ next_call

Spec == Init /\ [][Next]_vars

(***************************************************************************)
(* Specification SpecReparse: read_theriak and create_rock called          *)
(* directly, twice in a row, on one TherCaller and one report.             *)
(***************************************************************************)

\* The TherCaller after call_theriak(in.pressure, in.temperature, in.bulk).
TherCallerAfterCall(verbose, in) ==
    [TherCaller(verbose) EXCEPT
        !.has_therin = TRUE,
        !.pressure = in.pressure,
        !.temperature = in.temperature,
        !.therin_PT = "    " \o Str(in.temperature) \o "    " \o Str(in.pressure),
        !.therin_bulk = "1   " \o in.bulk \o "    *"]

ReparseInit ==
    /\ pc = "read_theriak"
    /\ fnd = NoFinder
    /\ \E verbose \in BOOLEAN, in \in CallInputs : tc = TherCallerAfterCall(verbose, in)
    /\ args = NoArgs
    /\ \E k \in Configs :
          /\ theriak_run = k
          /\ theriak_output = Report(k)
    /\ rd = NoRead
    /\ rock = NoRock
    /\ ret = NoReturn

\* create_rock returns its Rock.  The caller keeps the result of the first
\* run (with the TherCaller as it then is) and runs read_theriak again on
\* the same report; after the second run it holds both results.
create_rock_return ==
    /\ pc = "return"
    /\ IF ret.kind = "none"
       THEN /\ ret' = [kind |-> "first", tc |-> tc, rd |-> rd, rock |-> rock]
            /\ pc' = "read_theriak"
       ELSE /\ ret' = [kind |-> "both", first |-> [tc |-> ret.tc, rd |-> ret.rd, rock |-> ret.rock],
                       second |-> [tc |-> tc, rd |-> rd, rock |-> rock]]
            /\ pc' = "done"
    /\ UNCHANGED <<fnd, tc, args, theriak_run, theriak_output, rd, rock>>

ReparseNext ==
    \/ read_theriak_call
    \/ create_rock_Rock
    \/ create_rock_add_therin_to_reproduce
    \/ create_rock_add_bulk_rock_composition
    \/ create_rock_add_g_system
    \/ create_rock_add_bulk_density
    \/ create_rock_add_minerals
    \/ create_rock_add_fluids
    \/ create_rock_add_deltaG
    \/ create_rock_add_g_system_per_mol
    \/ create_rock_return

SpecReparse == ReparseInit /\ [][ReparseNext]_vars

(***************************************************************************)
(* Specification SpecBulk: TherCaller.check_for_corrupted_bulk applied to  *)
(* bulk strings of two elements with spelled amounts and O(?).             *)
(***************************************************************************)

\* re.findall(r"\(0\)", s) scanning from position i: the non-overlapping
\* matches, left to right.
RECURSIVE FindAllZeroInBrackets(_, _)
FindAllZeroInBrackets(s, i) ==
    IF i + 2 > Len(s) THEN <<>>
    ELSE IF SubSeq(s, i, i + 2) = "(0)"
         THEN <<"(0)">> \o FindAllZeroInBrackets(s, i + 3)
         ELSE FindAllZeroInBrackets(s, i + 1)

\* The last position of the run of "0" that starts at position i of s.
RECURSIVE ZeroRunEnd(_, _)
ZeroRunEnd(s, i) ==
    IF i + 1 <= Len(s) /\ Chr(s, i + 1) = "0" THEN ZeroRunEnd(s, i + 1) ELSE i

\* The end of a match of 0.0+\) that starts at position i of s, 0 if there
\* is none: "0", any character but a newline, a greedy run of "0", ")".
ZeroAnyZerosMatchEnd(s, i) ==
    IF i + 3 <= Len(s) /\ Chr(s, i) = "0" /\ Chr(s, i + 1) # "\n" /\ Chr(s, i + 2) = "0"
    THEN Bind(ZeroRunEnd(s, i + 2), LAMBDA e :
            IF e + 1 <= Len(s) /\ Chr(s, e + 1) = ")" THEN e + 1 ELSE 0)
    ELSE 0

\* re.findall(r"0.0+\)", s) scanning from position i.
RECURSIVE FindAllZeroAnyZeros(_, _)
FindAllZeroAnyZeros(s, i) ==
    IF i > Len(s) THEN <<>>
    ELSE Bind(ZeroAnyZerosMatchEnd(s, i), LAMBDA e :
            IF e > 0 THEN <<SubSeq(s, i, e)>> \o FindAllZeroAnyZeros(s, e + 1)
            ELSE FindAllZeroAnyZeros(s, i + 1))

\* TherCaller.check_for_corrupted_bulk: TRUE for a valid bulk.
check_for_corrupted_bulk(bulk) ==
    Len(FindAllZeroInBrackets(bulk, 1) \o FindAllZeroAnyZeros(bulk, 1)) = 0

\* The spellings of an element's amount.
AmountSpellings ==
    { "0", "0.0", "0.", "00", ".0", "0.00",
      "10.0", "20.00", "1000", "0.05", "2", "68.2" }

\* The bulk string of two amounts, in the THERIN format.
BulkString(amounts) == "SI(" \o amounts[1] \o ")AL(" \o amounts[2] \o ")O(?)"

BulkInit ==
    /\ pc = "check_for_corrupted_bulk"
    /\ fnd = NoFinder
    /\ \E verbose \in BOOLEAN : tc = TherCaller(verbose)
    /\ \E a \in AmountSpellings, b \in AmountSpellings :
          args = [bulk |-> BulkString(<<a, b>>), amounts |-> <<a, b>>]
    /\ theriak_run = NoRun
    /\ theriak_output = ""
    /\ rd = NoRead
    /\ rock = NoRock
    /\ ret = NoReturn

\* One call check_for_corrupted_bulk(bulk); the warning is printed in
\* verbose mode only.
check_for_corrupted_bulk_call ==
    /\ pc = "check_for_corrupted_bulk"
    /\ \E valid \in {check_for_corrupted_bulk(args.bulk)} :
          ret' = [kind |-> "bool", val |-> valid, warned |-> ~valid /\ tc.verbose_mode]
    /\ pc' = "done"
    /\ UNCHANGED <<fnd, tc, args, theriak_run, theriak_output, rd, rock>>

BulkNext == check_for_corrupted_bulk_call

SpecBulk == BulkInit /\ [][BulkNext]_vars

(***************************************************************************)
(* Specification SpecSubblocks: extract_solution_subblocks applied to      *)
(* every short assemblage block over a vocabulary of report lines.         *)
(***************************************************************************)

\* Longest assemblage block handed to extract_solution_subblocks.
MaxBlockLen == 3

\* The first lines of three solutions (with the first endmember row, with a
\* flagged activity, without an endmember row), an endmember row, a
\* site-occupancy row, the blank line, an activity test line, and endmember
\* rows that end with one space, three spaces, no space, a letter before the
\* two spaces, and a tab before the last space.
AssemblageLines ==
    { "   0 1 PLC1_abh  4.5  18.6   abh  0.5  0.5  1.0  1.0  ",
      "   0 2 GRT  4.5  18.6   alm  0.5  0.5 ** 1.0  1.0  ",
      "   0 3 BIO  4.5  18.6",
      "      an  0.5  0.5  1.0  1.0  ",
      "      XAn = 0.07",
      " ",
      "      ** activity test: alm  1.25  ",
      "      an  0.5  0.5  1.0  1.0 ",
      "      an  0.5  0.5  1.0  1.0   ",
      "      an  0.5  0.5  1.0  1.0",
      "      an  0.5  0.5  1.0  n/a  ",
      "      an  0.5  0.5  1.0  1.0\t " }

SubblocksInit ==
    /\ pc = "extract_solution_subblocks"
    /\ fnd = NoFinder
    /\ tc = NoCaller
    /\ \E n \in 0..MaxBlockLen : \E b \in [1..n -> AssemblageLines] : args = [block_phases |-> b]
    /\ theriak_run = NoRun
    /\ theriak_output = ""
    /\ rd = NoRead
    /\ rock = NoRock
    /\ ret = NoReturn

\* One call extract_solution_subblocks(block_phases): the dict it returns, or
\* the exception that leaves it.
extract_solution_subblocks_call ==
    /\ pc = "extract_solution_subblocks"
    /\ \E r \in {extract_solution_subblocks(args.block_phases)} :
          /\ ret' = [kind |-> "subblocks", err |-> r.err, val |-> r.val]
          /\ pc' = IF r.err # "" THEN "raised" ELSE "done"
    /\ UNCHANGED <<fnd, tc, args, theriak_run, theriak_output, rd, rock>>

\* The caller builds the phase of one of the returned sub-blocks, as
\* add_minerals does for a mineral whose name is a key of the dict:
\* Phase.add_endmember_properties(solution_phase_subblock).
add_endmember_properties_call ==
    /\ pc = "done"
    /\ ret.kind = "subblocks"
    /\ \E n \in 1..Len(ret.val) :
          \E r \in {add_endmember_properties(Phase("Mineral", ret.val[n].k), ret.val[n].v)} :
              /\ ret' = [kind |-> "phase", solution_phase_subblock |-> ret.val[n].v,
                         err |-> r.err, val |-> IF r.err # "" THEN None ELSE r.val]
              /\ pc' = IF r.err # "" THEN "raised" ELSE "done"
    /\ UNCHANGED <<fnd, tc, args, theriak_run, theriak_output, rd, rock>>

SubblocksNext ==
    \/ extract_solution_subblocks_call
    \/ add_endmember_properties_call

SpecSubblocks == SubblocksInit /\ [][SubblocksNext]_vars

(***************************************************************************)
(* Specification SpecDeltaG: the add_deltaG stage of create_rock on a new  *)
(* Rock, for every short table of activities over a vocabulary of rows.    *)
(***************************************************************************)

\* Most rows of the table below its five title rows.
MaxDeltaGLen == 4

\* The title rows of the block (the marker, its rule, a blank line and the
\* two header rows); in the second choice a title row is a rule as long as
\* the delimiter.
DeltaGTitles ==
    { <<start_key_deltaG, " -------------------------", "", "      phase      G", "      -----      -">>,
      <<start_key_deltaG, " -------------------------", "", "      phase      G", Delimiter>> }

\* The delimiter, a stable phase, metastable phases (a phase and a solution
\* row), a row of a fluid (no S or P), a phase row without the zero
\* sentinel, and a phase row that ends with it.
DeltaGLines ==
    { Delimiter,
      " S   1 q           " \o ZeroSentinel \o "  " \o ZeroSentinel,
      " S   7 ky          -1.25000E+02  " \o ZeroSentinel \o "  1.50000E+03  2.00000E+00",
      " P   8 sill          " \o ZeroSentinel \o "  2.50000E+02",
      "     9 FLUID         " \o ZeroSentinel \o "  9.00000E+00",
      " S  10 grt           1.00000E+01  3.00000E+00",
      " P  11 ab            5.00000E+00  " \o ZeroSentinel }

\* create_rock has reached rock.add_deltaG(block_deltaG=blocks["block_deltaG"]).
DeltaGInit ==
    /\ pc = "add_deltaG"
    /\ fnd = NoFinder
    /\ tc = NoCaller
    /\ args = NoArgs
    /\ theriak_run = NoRun
    /\ theriak_output = ""
    /\ \E t \in DeltaGTitles, n \in 0..MaxDeltaGLen :
          \E b \in [1..n -> DeltaGLines] : rd = [blocks |-> [block_deltaG |-> t \o b]]
    /\ \E in \in CallInputs : rock = Rock(in.pressure, in.temperature)
    /\ ret = NoReturn

DeltaGNext == create_rock_add_deltaG

SpecDeltaG == DeltaGInit /\ [][DeltaGNext]_vars

(***************************************************************************)
(* Specification SpecDirect: a caller that uses the methods of one         *)
(* TherCaller directly: call_theriak (keeping the reports), then           *)
(* check_minimisation, or read_theriak and create_rock, on a report it     *)
(* holds.                                                                  *)
(***************************************************************************)

\* Most direct call_theriak calls of the caller.
MaxCalls == 2

\* The theriak runs behind the reports of the caller.
DirectConfigs ==
    { [nel |-> 2, mins |-> <<"q">>, fluid |-> FALSE, defect |-> "none"],
      [nel |-> 3, mins |-> <<"PLC1_abh", "q">>, fluid |-> TRUE, defect |-> "none"],
      [nel |-> 2, mins |-> <<"PLC1_abh", "q">>, fluid |-> FALSE, defect |-> "failed"] }

DirectInit ==
    /\ pc = "caller"
    /\ fnd = NoFinder
    /\ \E verbose \in BOOLEAN : tc = TherCaller(verbose)
    /\ args = [calls |-> <<>>]
    /\ theriak_run = NoRun
    /\ theriak_output = ""
    /\ rd = NoRead
    /\ rock = NoRock
    /\ ret = NoReturn

\* call_theriak(pressure, temperature, bulk) called directly: the attributes
\* are set on the TherCaller and the caller keeps the report (history: the
\* arguments and the run of each call).
call_theriak_direct ==
    /\ pc = "caller"
    /\ Len(args.calls) < MaxCalls
    /\ \E in \in CallInputs, k \in DirectConfigs :
          /\ tc' = TherCallerAfterCall(tc.verbose_mode, in)
          /\ args' = [calls |-> Append(args.calls,
                                       [pressure |-> in.pressure, temperature |-> in.temperature,
                                        bulk |-> in.bulk, run |-> k])]
    /\ UNCHANGED <<pc, fnd, theriak_run, theriak_output, rd, rock, ret>>

\* read_theriak(theriak_output) called directly with a report the caller
\* holds, the output of its call n or (n = 0) the text of an OUT file of some
\* run; create_rock follows on what it returns.
read_theriak_direct ==
    /\ pc = "caller"
    /\ \E n \in 0..Len(args.calls), k \in DirectConfigs :
          /\ n > 0 => k = args.calls[n].run
          /\ theriak_run' = [of_call |-> n, run |-> k]
          /\ theriak_output' = Report(k)
    /\ pc' = "read_theriak"
    /\ UNCHANGED <<fnd, tc, args, rd, rock, ret>>

\* check_minimisation(theriak_output) called directly with a held report: in
\* verbose mode a failed report makes it print self.therin_PT and
\* self.therin_bulk, which exist only after call_theriak.
check_minimisation_direct ==
    /\ pc = "caller"
    /\ \E n \in 0..Len(args.calls), k \in DirectConfigs :
          /\ n > 0 => k = args.calls[n].run
          /\ theriak_run' = [of_call |-> n, run |-> k]
          /\ theriak_output' = Report(k)
          /\ IF ~minimisation_state(Report(k)) /\ tc.verbose_mode /\ ~tc.has_therin
             THEN Raise("AttributeError")
             ELSE /\ pc' = "done"
                  /\ ret' = [kind |-> "bool", val |-> minimisation_state(Report(k))]
                  /\ rock' = rock
    /\ UNCHANGED <<fnd, tc, args, rd>>

\* create_rock: return rock
create_rock_direct_return ==
    /\ pc = "return"
    /\ ret' = [kind |-> "rock", rock |-> rock]
    /\ pc' = "done"
    /\ UNCHANGED <<fnd, tc, args, theriak_run, theriak_output, rd, rock>>

DirectNext ==
    \/ call_theriak_direct
    \/ read_theriak_direct
    \/ check_minimisation_direct
    \/ read_theriak_call
    \/ create_rock_Rock
    \/ create_rock_add_therin_to_reproduce
    \/ create_rock_add_bulk_rock_composition
    \/ create_rock_add_g_system
    \/ create_rock_add_bulk_density
    \/ create_rock_add_minerals
    \/ create_rock_add_fluids
    \/ create_rock_add_deltaG
    \/ create_rock_add_g_system_per_mol
    \/ create_rock_direct_return

SpecDirect == DirectInit /\ [][DirectNext]_vars

(***************************************************************************)
(* Claims about output_block_finder (checked under SpecFinder)             *)
(***************************************************************************)

\* C1: whenever output_block_finder returns, the block is non-empty, its
\* first line is start_key and none of its lines equals end_key.
C1_BlockFramedByMarkers ==
    pc = "finder_returned" =>
        LET block == fnd.res.block
        IN  /\ Len(block) > 0
            /\ block[1] = fnd.start_key
            /\ \A i \in 1..Len(block) : block[i] # fnd.end_key

\* What output_block_finder returned satisfies the C2 statement: start_idx
\* and end_idx are the lowest indices of a line equal to the marker, and the
\* residual is the suffix of the report that begins at end_idx.
C2_Returned ==
    pc = "finder_returned" =>
        LET report == fnd.theriak_output
            r      == fnd.res
        IN  /\ r.start_idx \in 0..(Len(report) - 1)
            /\ r.end_idx \in 0..(Len(report) - 1)
            /\ report[r.start_idx + 1] = fnd.start_key
            /\ report[r.end_idx + 1] = fnd.end_key
            /\ \A j \in 1..r.start_idx : report[j] # fnd.start_key
            /\ \A j \in 1..r.end_idx : report[j] # fnd.end_key
            /\ Len(r.residual_output) = Len(report) - r.end_idx
            /\ r.residual_output[1] = fnd.end_key
            /\ \A i \in 1..Len(r.residual_output) :
                  r.residual_output[i] = report[r.end_idx + i]

\* C2: output_block_finder matches markers by exact line equality at the
\* lowest index, returns as residual the suffix of the report starting at the
\* first end_key line, and leaves the report it was given unchanged.
C2_ExactFirstMatchAndResidual ==
    /\ []C2_Returned
    /\ [][fnd'.theriak_output = fnd.theriak_output]_vars

\* C2 witness: a returned call whose report has a line starting with
\* start_key before the real start marker, an indented end marker before the
\* real one, and a non-empty residual.
C2_Witness ==
    /\ pc = "finder_returned"
    /\ Len(fnd.theriak_output) = 4
    /\ fnd.theriak_output[1] = start_key_volume \o " "
    /\ fnd.theriak_output[3] = " " \o end_key_volume
    /\ fnd.res.start_idx = 1
    /\ fnd.res.end_idx = 3

(***************************************************************************)
(* Claims about minimisation, read_theriak and create_rock (checked under  *)
(* Spec)                                                                   *)
(***************************************************************************)

\* The set of the lines of the raw report.
OutputLineSet ==
    Bind(SplitLines(theriak_output), LAMBDA ls : { ls[i] : i \in 1..Len(ls) })

\* The marker lines of every block but the gases-and-fluids table.
RequiredMarkers ==
    { start_key_bulk, end_key_bulk, start_key_Gsys, end_key_Gsys, start_key_phases,
      end_key_phases, start_key_volume, end_key_volume, start_key_elements,
      end_key_elements, start_key_composition, end_key_composition, start_key_deltaG,
      end_key_deltaG }

\* Every attribute of a Rock that create_rock has assembled completely.
AllRockFields ==
    { "mineral_assemblage", "fluid_assemblage", "pressure", "temperature",
      "therin_PT", "therin_bulk", "bulk_composition_moles", "bulk_composition_mol_percent",
      "g_system", "bulk_density", "mineral_delta_G", "g_system_per_mol_of_input" }

\* minimisation has returned a Rock.
RockReturned == pc = "done" /\ ret.kind = "rock"

\* C3: when read_theriak returns without error, no marker line of a required
\* block is absent from the report, and a report that has the gases-and-fluids
\* start marker also has its end marker ' H2O content of stable phases:'.
C3_AbsentMarkerRaises ==
    pc = "Rock" =>
        Bind(OutputLineSet, LAMBDA ls :
            /\ RequiredMarkers \subseteq ls
            /\ (start_key_fluid \in ls => end_key_fluid \in ls))

\* The report lacks the gases-and-fluids start marker and has every other
\* marker.
FluidTableAbsent ==
    Bind(OutputLineSet, LAMBDA ls :
        start_key_fluid \notin ls /\ RequiredMarkers \subseteq ls)

\* C4: for a report without the gases-and-fluids start marker and with all
\* other markers, read_theriak raises nothing and returns fluids_stable false
\* with an empty fluid block and the elements, composition and metastable
\* blocks extracted; create_rock never runs the fluid stage, and a Rock that
\* is returned has an empty fluid_assemblage and every other field populated.
C4_AbsentFluidTableTolerated ==
    FluidTableAbsent =>
        /\ ~(pc = "raised" /\ ret.at = "read_theriak")
        /\ pc # "add_fluids"
        /\ pc \notin {"call_theriak", "check_minimisation", "read_theriak", "raised"}
              /\ ~(pc = "done" /\ ret.kind = "raw") =>
              /\ ~rd.fluids_stable
              /\ rd.blocks.block_fluid = <<>>
              /\ Len(rd.blocks.block_elements) > 0
              /\ rd.blocks.block_elements[1] = start_key_elements
              /\ Len(rd.blocks.block_composition) > 0
              /\ rd.blocks.block_composition[1] = start_key_composition
              /\ Len(rd.blocks.block_deltaG) > 0
              /\ rd.blocks.block_deltaG[1] = start_key_deltaG
        /\ RockReturned =>
              /\ ret.rock.fluid_assemblage = <<>>
              /\ ret.rock.filled = AllRockFields
              /\ Len(ret.rock.mineral_assemblage) > 0
              /\ Len(ret.rock.bulk_composition_moles) > 0
              /\ Len(ret.rock.bulk_composition_mol_percent) > 0

\* C4 witness: a Rock with minerals and no fluid returned for a report
\* without the gases-and-fluids table.
C4_Witness ==
    /\ RockReturned
    /\ FluidTableAbsent
    /\ ~rd.fluids_stable
    /\ ret.rock.fluid_assemblage = <<>>
    /\ Len(ret.rock.mineral_assemblage) = 2

\* The raw report holds the failure token.
FailureToken == "activity test"

Failed == Contains(theriak_output, FailureToken)

\* The steps from read_theriak to the return of the Rock.
ReadOrLater ==
    { "read_theriak", "Rock", "add_therin_to_reproduce", "add_bulk_rock_composition",
      "add_g_system", "add_bulk_density", "add_minerals", "add_fluids", "add_deltaG",
      "add_g_system_per_mol", "return" }

\* C5: minimisation ends in one of three ways.  With the failure token in
\* the report and return_failed_minimisation false, neither read_theriak nor
\* create_rock runs and the raw text comes back unchanged with an empty list;
\* otherwise a return hands out the Rock of a completed create_rock with the
\* element list; an exception hands out nothing.  Nothing is returned before
\* the end, and no returned Rock lacks a field.
C5_ThreeOutcomes ==
    /\ pc # "idle" /\ Failed /\ ~args.return_failed_minimisation =>
          /\ pc \notin ReadOrLater
          /\ pc # "raised"
          /\ rd = NoRead
          /\ rock = NoRock
          /\ pc = "done" =>
                ret = [kind |-> "raw", theriak_output |-> theriak_output,
                       element_list |-> <<>>]
    /\ pc = "done" /\ ~(Failed /\ ~args.return_failed_minimisation) =>
          /\ ret.kind = "rock"
          /\ ret.rock = rock
          /\ ret.rock.filled = AllRockFields
          /\ ret.element_list = rd.element_list
    /\ pc = "raised" => ret.kind = "error" /\ rock = NoRock
    /\ pc \notin {"done", "raised"} => ret = NoReturn

\* C5 witness: a failed minimisation that is not to be returned came back
\* as raw text.
C5_Witness ==
    /\ pc = "done"
    /\ Failed
    /\ ~args.return_failed_minimisation
    /\ ret.kind = "raw"
    /\ ret.theriak_output = theriak_output

\* The lengths of the bulk vectors and of every phase's composition vectors
\* equal the length of the element list.
LengthsMatch(r, element_list) ==
    /\ Len(r.bulk_composition_moles) = Len(element_list)
    /\ Len(r.bulk_composition_mol_percent) = Len(element_list)
    /\ \A i \in 1..Len(r.mineral_assemblage) :
          /\ Len(r.mineral_assemblage[i].composition_apfu) = Len(element_list)
          /\ Len(r.mineral_assemblage[i].composition_moles) = Len(element_list)
    /\ \A i \in 1..Len(r.fluid_assemblage) :
          /\ Len(r.fluid_assemblage[i].composition_apfu) = Len(element_list)
          /\ Len(r.fluid_assemblage[i].composition_moles) = Len(element_list)

\* The report theriak printed is complete: one bulk row per element, every
\* row of the element and composition tables with one number per column.
WellFormedRun == theriak_run # NoRun /\ theriak_run.defect \in {"none", "failed"}

\* C6: the Rock returned for a well-formed report has bulk vectors and phase
\* composition vectors as long as the element list.
C6_WellFormedLengthsAgree ==
    RockReturned /\ WellFormedRun => LengthsMatch(ret.rock, ret.element_list)

\* C7: no Rock is returned whose bulk or phase composition vectors differ in
\* length from the element list.
C7_MismatchFailsHard ==
    RockReturned => LengthsMatch(ret.rock, ret.element_list)

\* Two consecutive continuation lines: a table row printed on three or more
\* physical lines.  (In the elements block the header row at offset 3 is
\* itself indented, its continuation lines start at offset 4.)
TwoContinuations(block) ==
    \E i \in 1..(Len(block) - 1) :
        StartsWith(block[i], OverflowIndent) /\ StartsWith(block[i + 1], OverflowIndent)

\* C8: a report whose element header or composition rows take three or more
\* physical lines is not parsed into an element list and a Rock.
C8_ThreeLineWrapRejected ==
    RockReturned =>
        /\ ~TwoContinuations(PySliceFrom(rd.blocks.block_elements, 4))
        /\ ~TwoContinuations(rd.blocks.block_composition)

\* The first tokens of the rows of the volumes block from offset 5 up to the
\* rule line before the first line that begins with '  total of solids'.
RowsBeforeSolidsTotal(block_volume) ==
    Bind(Min({ i \in 1..Len(block_volume) : StartsWith(block_volume[i], SolidsTotal) }),
         LAMBDA total :
        List([n \in 1..(total - 7) |-> Split(block_volume[n + 5])[1]]))

\* The names of a list of phases, in order.
Names(phases) == List([i \in 1..Len(phases) |-> phases[i].name])

\* C9: once add_minerals has run, the names of rock.mineral_assemblage are,
\* in order, the first tokens of the volumes rows between offset 5 and the
\* rule line before the solids total, the minerals theriak reported stable;
\* rows of the fluid and H2O-content tables contribute none.
C9_MineralNamesFromVolumeRows ==
    pc \in {"add_fluids", "add_deltaG", "add_g_system_per_mol", "return", "done"}
        /\ rock # NoRock =>
        /\ Names(rock.mineral_assemblage) = RowsBeforeSolidsTotal(rd.blocks.block_volume)
        /\ Names(rock.mineral_assemblage) = theriak_run.mins

\* C9 witness: three minerals read from a report that also has the fluid
\* table after the solids total.
C9_Witness ==
    /\ RockReturned
    /\ rd.fluids_stable
    /\ Names(rock.mineral_assemblage) = <<"an", "and", "q">>
    /\ Names(rock.fluid_assemblage) = <<"H2O">>

\* The numbers of the row of the table whose first token is name, with the
\* tokens of the next physical line when the rows overflow, less the name and
\* the last token.
RowVector(block, name, output_line_overflow) ==
    Bind(Min({ i \in 1..Len(block) :
                 Bind(Split(block[i]), LAMBDA toks : Len(toks) > 0 /\ toks[1] = name) }),
         LAMBDA i :
        Floats(PySlice(Split(block[i])
                         \o (IF output_line_overflow THEN Split(block[i + 1]) ELSE <<>>),
                       1, -1)).val)

\* C10: the composition vectors of every mineral of a returned Rock are the
\* numbers of the mineral's own row in the composition and elements tables.
C10_VectorIsOwnRow ==
    RockReturned =>
        \A i \in 1..Len(ret.rock.mineral_assemblage) :
            LET m == ret.rock.mineral_assemblage[i]
            IN  /\ m.composition_apfu
                      = RowVector(rd.blocks.block_composition, m.name, rd.output_line_overflow)
                /\ m.composition_moles
                      = RowVector(rd.blocks.block_elements, m.name, rd.output_line_overflow)


(***************************************************************************)
(* Claims about repeated parsing (checked under SpecReparse)               *)
(***************************************************************************)

IsZeroAmount(a) == Float(a).ok /\ Float(a).val.m = 0

BulkChecked == pc = "done" /\ ret.kind = "bool"

\* C12: check_for_corrupted_bulk returns False for every bulk in which the
\* amount of at least one element is numerically zero, however it is spelled.
C12_ZeroAmountRejected ==
    BulkChecked /\ (\E i \in 1..Len(args.amounts) : IsZeroAmount(args.amounts[i]))
        => ~ret.val

\* C13: check_for_corrupted_bulk returns True for every bulk in which all
\* bracketed amounts are non-zero numbers (O(?) aside), also when their
\* spelling holds zero digits.
C13_NonZeroAmountAccepted ==
    BulkChecked /\ (\A i \in 1..Len(args.amounts) :
                        Float(args.amounts[i]).ok /\ ~IsZeroAmount(args.amounts[i]))
        => ret.val


(***************************************************************************)
(* Claims about the order of assembly (checked under Spec)                 *)
(***************************************************************************)

\* The position of a stage of create_rock in the assembly order: pc names
\* the stage that runs next, so every stage of lower rank has completed.
StageRank(p) ==
    CASE p = "add_bulk_rock_composition" -> 1
      [] p = "add_g_system" -> 2
      [] p = "add_bulk_density" -> 3
      [] p = "add_minerals" -> 4
      [] p = "add_fluids" -> 5
      [] p = "add_deltaG" -> 6
      [] p = "add_g_system_per_mol" -> 7
      [] p = "return" -> 8
      [] OTHER -> 0

\* The Rock fields each stage assigns.
FieldsOfStage(k) ==
    CASE k = 1 -> {"bulk_composition_moles", "bulk_composition_mol_percent"}
      [] k = 2 -> {"g_system"}
      [] k = 3 -> {"bulk_density"}
      [] k = 4 -> {"mineral_assemblage"}
      [] k = 5 -> {"fluid_assemblage"}
      [] k = 6 -> {"mineral_delta_G"}
      [] k = 7 -> {"g_system_per_mol_of_input"}
      [] OTHER -> {}

FieldValue(r, f) ==
    CASE f = "bulk_composition_moles" -> r.bulk_composition_moles
      [] f = "bulk_composition_mol_percent" -> r.bulk_composition_mol_percent
      [] f = "g_system" -> r.g_system
      [] f = "bulk_density" -> r.bulk_density
      [] f = "mineral_assemblage" -> r.mineral_assemblage
      [] f = "fluid_assemblage" -> r.fluid_assemblage
      [] f = "mineral_delta_G" -> r.mineral_delta_G
      [] f = "g_system_per_mol_of_input" -> r.g_system_per_mol_of_input

\* C14: the stages of create_rock run in the order bulk composition, system
\* energy, bulk density, minerals, fluids (exactly when fluids_stable),
\* metastable table, per-mole energy, each at most once; a field assigned by
\* a completed stage is not changed by a later stage; the per-mole stage
\* starts only with bulk composition and system energy set; and the Rock is
\* returned only after the last stage, as that stage left it.
C14_FixedOrderWriteOnce ==
    /\ [][StageRank(pc) > 0 /\ StageRank(pc') > 0 =>
             /\ StageRank(pc') = IF pc = "add_minerals" /\ ~rd.fluids_stable
                                  THEN StageRank(pc) + 2 ELSE StageRank(pc) + 1
             /\ \A k \in 1..(StageRank(pc) - 1) : \A f \in FieldsOfStage(k) :
                    FieldValue(rock', f) = FieldValue(rock, f)]_vars
    /\ [](pc = "add_g_system_per_mol" =>
             {"bulk_composition_moles", "bulk_composition_mol_percent", "g_system"}
                \subseteq rock.filled)
    /\ [][ret'.kind = "rock" /\ ret.kind # "rock" =>
             /\ pc = "return"
             /\ "g_system_per_mol_of_input" \in rock.filled
             /\ ret'.rock = rock]_vars

\* C14 witness: every stage, the fluid stage included, has run and the Rock
\* is about to be returned.
C14_Witness ==
    /\ pc = "return"
    /\ rock.filled = AllRockFields
    /\ Len(rock.mineral_assemblage) > 1
    /\ Len(rock.fluid_assemblage) > 0
    /\ Len(rock.mineral_delta_G) > 0


(***************************************************************************)
(* Claims about the per-mole energy (checked under Spec)                   *)
(***************************************************************************)

\* The sum of the numbers of lst, computed at one common scale: the integer
\* total of the mantissas shifted to the smallest exponent, and that exponent.
ScaledSum(lst) ==
    Bind(Min({lst[i].e : i \in 1..Len(lst)} \cup {0}), LAMBDA low :
        LET RECURSIVE Total(_)
            Total(i) == IF i = 0 THEN 0 ELSE lst[i].m * TenTo(lst[i].e - low) + Total(i - 1)
        IN  Normalise(Total(Len(lst)), low))

\* q * divisor = dividend, for the quotient q = num/den * 10^e.
IsQuotient(q, dividend, divisor) ==
    /\ ~q.nonfinite
    /\ q.den # 0
    /\ Normalise(q.num * divisor.m, q.e + divisor.e) = Normalise(dividend.m * q.den, dividend.e)

\* C15: in a returned Rock, g_system_per_mol_of_input is g_system divided by
\* the sum of all entries of bulk_composition_moles, one entry per row of
\* the bulk table, whenever that sum is not zero.
C15_PerMolIsEnergyOverBulkSum ==
    RockReturned =>
        /\ Len(ret.rock.bulk_composition_moles) = Len(rd.blocks.block_bulk) - 3
        /\ ScaledSum(ret.rock.bulk_composition_moles).m # 0 =>
               IsQuotient(ret.rock.g_system_per_mol_of_input, ret.rock.g_system,
                          ScaledSum(ret.rock.bulk_composition_moles))

\* C15 witness: a Rock returned with three bulk rows whose sum does not
\* divide the system energy evenly.
C15_Witness ==
    /\ RockReturned
    /\ Len(ret.rock.bulk_composition_moles) >= 3
    /\ ScaledSum(ret.rock.bulk_composition_moles).m # 0
    /\ ret.rock.g_system_per_mol_of_input.den > 1


(***************************************************************************)
(* Claims about the echoed input (checked under Spec)                      *)
(***************************************************************************)

\* The two THERIN lines of a call, written out for the inputs of CallInputs.
TherinLines(a) ==
    IF a.pressure = 4000
    THEN <<"    550    4000", "1   AL(2)SI(1)H(100)O(?)    *">>
    ELSE <<"    417    6046", "1   SI(68.2)AL(25.18)H(100)O(?)    *">>

\* C16: in any sequence of calls on one TherCaller, the Rock returned by
\* minimisation(P, T, B) carries P and T, and its therin_PT and therin_bulk
\* are the two lines of the THERIN file written for that call: four spaces,
\* T, four spaces, P and "1   " B "    *".
C16_RockEchoesOwnCall ==
    RockReturned =>
        /\ ret.rock.pressure = args.pressure
        /\ ret.rock.temperature = args.temperature
        /\ <<ret.rock.therin_PT, ret.rock.therin_bulk>> = TherinLines(args)
        /\ <<ret.rock.therin_PT, ret.rock.therin_bulk>> = SplitLines(theriak_run.THERIN)

\* C16 witness: a Rock returned by a call made after an earlier call with
\* other arguments on the same TherCaller.
C16_Witness ==
    /\ RockReturned
    /\ args.after_other_call
    /\ ret.rock.pressure = 6046
    /\ ret.rock.therin_bulk = "1   SI(68.2)AL(25.18)H(100)O(?)    *"


(***************************************************************************)
(* Claims about solution phases (checked under Spec)                       *)
(***************************************************************************)

\* The phases of a Rock, minerals then fluids.
PhasesOf(r) == r.mineral_assemblage \o r.fluid_assemblage

\* The filtered endmember lines of the sub-block of phase name, none when
\* the phase has no sub-block.
EndmemberLines(name) ==
    IF DictHas(rd.blocks.block_solutions, name)
    THEN DictGet(rd.blocks.block_solutions, name) ELSE <<>>

\* C17: a phase of a returned Rock is marked as a solution only when its
\* sub-block yields more than one endmember line; with exactly one endmember
\* line that names the phase itself, and with no sub-block, solution_phase
\* stays false.
C17_SolutionNeedsSeveralEndmembers ==
    RockReturned =>
        \A i \in 1..Len(PhasesOf(ret.rock)) :
            Bind(PhasesOf(ret.rock)[i], LAMBDA ph :
            Bind(EndmemberLines(ph.name), LAMBDA rows :
                /\ ph.solution_phase => Len(rows) > 1
                /\ Len(rows) = 1 /\ Split(rows[1])[6] = ph.name => ~ph.solution_phase
                /\ ~DictHas(rd.blocks.block_solutions, ph.name) => ~ph.solution_phase))


(***************************************************************************)
(* Claims about the trimmed block (checked under SpecFinder)               *)
(***************************************************************************)

\* The lines of report with 0-based indices lo..hi, none when hi < lo.
LinesBetween(report, lo, hi) ==
    IF hi < lo THEN <<>> ELSE List([k \in 1..(hi - lo + 1) |-> report[lo + k]])

\* C18: with end_with_subtitle true the returned block is exactly the lines
\* start_idx .. end_idx-4 of the report, with end_with_subtitle false exactly
\* the lines start_idx .. end_idx-1; so for start_idx <= end_idx-3 the
\* trimmed block has end_idx - 3 - start_idx lines.
C18_BlockIsIndexRange ==
    pc = "finder_returned" =>
        /\ fnd.res.block =
              LinesBetween(fnd.theriak_output, fnd.res.start_idx,
                           IF fnd.end_with_subtitle THEN fnd.res.end_idx - 4
                           ELSE fnd.res.end_idx - 1)
        /\ fnd.end_with_subtitle /\ fnd.res.start_idx <= fnd.res.end_idx - 3
              => Len(fnd.res.block) = fnd.res.end_idx - 3 - fnd.res.start_idx


(***************************************************************************)
(* Claims about the order of the extraction passes (checked under Spec)    *)
(***************************************************************************)

\* read_theriak has returned its blocks.
ReadReturned == rd # NoRead /\ rd.err = ""

\* The last pass before pass k that found its end marker.
PassBefore(k) ==
    CHOOSE j \in 1..(k - 1) :
        /\ rd.passes[j].end_at # -1
        /\ \A i \in (j + 1)..(k - 1) : rd.passes[i].end_at = -1

\* C19: every pass of read_theriak after the first starts to scan at the
\* end marker found by the pass before it (the residual of that pass), so no
\* pass scans lines before that end marker, with or without the
\* gases-and-fluids block.
C19_EachPassScansPreviousResidual ==
    ReadReturned =>
        \A k \in 2..8 : rd.passes[k].scan_from = rd.passes[PassBefore(k)].end_at


(***************************************************************************)
(* Claims about the rows selected for a phase (checked under Spec)         *)
(***************************************************************************)

\* The tokens of the first row of block whose first token is name.
OwnRow(block, name) ==
    Bind(Min({ i \in 1..Len(block) :
                 Bind(Split(block[i]), LAMBDA toks : Len(toks) > 0 /\ toks[1] = name) }),
         LAMBDA i : Split(block[i]))

\* The phase carries the numbers of row: n, vol and density, and vol_percent
\* for a mineral.
HasPropertiesOf(ph, row) ==
    /\ ph.n = Float(row[2]).val
    /\ ph.vol = Float(row[4]).val
    /\ ph.density = Float(row[Len(row)]).val
    /\ ph.kind = "Mineral" => ph.vol_percent = Float(row[5]).val

\* C20: for every mineral and fluid of a returned Rock, the property line
\* and the composition lines read for it are the rows whose first token is
\* exactly its name, also when an earlier row of the block has a name that
\* starts with this name and when the name appears again in a later table.
C20_RowsSelectedByExactName ==
    RockReturned =>
        \A i \in 1..Len(PhasesOf(ret.rock)) :
            Bind(PhasesOf(ret.rock)[i], LAMBDA ph :
                /\ HasPropertiesOf(ph, OwnRow(IF ph.kind = "Mineral"
                                                 THEN rd.blocks.block_volume
                                                 ELSE rd.blocks.block_fluid, ph.name))
                /\ ph.composition_apfu
                      = RowVector(rd.blocks.block_composition, ph.name, rd.output_line_overflow)
                /\ ph.composition_moles
                      = RowVector(rd.blocks.block_elements, ph.name, rd.output_line_overflow))


(***************************************************************************)
(* Claims about extract_solution_subblocks (checked under SpecSubblocks)   *)
(***************************************************************************)

SubblocksReturned == pc = "done" /\ ret.kind = "subblocks"

\* The 1-based indices of the marker lines of block, ascending.
MarkerLines(block) == Ascending({ i \in 1..Len(block) : StartsWith(block[i], "   0") })

\* The lines from marker line n up to (excluding) marker line n + 1, the last
\* span running to the end of the block.
Span(block, n) ==
    Bind(MarkerLines(block), LAMBDA at :
        SubSeq(block, at[n], IF n < Len(at) THEN at[n + 1] - 1 ELSE Len(block)))

\* The third token of marker line n.
MarkerName(block, n) == Split(block[MarkerLines(block)[n]])[3]

MarkerNames(block) == [n \in 1..Len(MarkerLines(block)) |-> MarkerName(block, n)]

DistinctNames(block) ==
    \A m, n \in 1..Len(MarkerLines(block)) :
        m # n => MarkerName(block, m) # MarkerName(block, n)

\* C21: extract_solution_subblocks returns one sub-block per marker line
\* ("   0"), keyed in report order by the third token of that marker line
\* (when these names are distinct), and the lines stored under a key are
\* lines of the span from its marker line up to the next marker line (the
\* last span running to the end of the block).
C21_OneSubblockPerMarkerLine ==
    SubblocksReturned /\ DistinctNames(args.block_phases) =>
        /\ DictKeys(ret.val) = MarkerNames(args.block_phases)
        /\ \A n \in 1..Len(ret.val) :
              \A j \in 1..Len(ret.val[n].v) :
                  \E l \in 1..Len(Span(args.block_phases, n)) :
                      ret.val[n].v[j] \in { Span(args.block_phases, n)[l],
                                            ReplaceFailFlags(Span(args.block_phases, n)[l]) }


\* Span n of the block holds a line with the failure token.
SpanFailed(block, n) ==
    \E l \in 1..Len(Span(block, n)) : Contains(Span(block, n)[l], "activity test:")

\* C22: in what extract_solution_subblocks returns, a sub-block whose span
\* holds a line with the failure token has no line that contains "**" or the
\* failure token (it was cut at its first blank line and its "**" were
\* replaced before the line filter), and a sub-block whose span holds no
\* such line is the filtered span, uncut and unreplaced.
C22_FailedSubblockNormalised ==
    SubblocksReturned /\ DistinctNames(args.block_phases) =>
        \A n \in 1..Len(ret.val) :
            IF SpanFailed(args.block_phases, n)
            THEN \A j \in 1..Len(ret.val[n].v) :
                    /\ ~Contains(ret.val[n].v[j], "**")
                    /\ ~Contains(ret.val[n].v[j], "activity test:")
            ELSE ret.val[n].v = Filter(Span(args.block_phases, n), EndsDigitSpaceSpace)


\* The line ends with a digit followed by two space characters.
EndsDigitTwoSpaces(line) ==
    /\ Len(line) >= 3
    /\ IsDigit(Chr(line, Len(line) - 2))
    /\ SubSeq(line, Len(line) - 1, Len(line)) = "  "

\* The lines of span n the line filter is applied to: the span, or for a
\* span with the failure token its lines before the first blank line with
\* "**" replaced.
LinesToFilter(block, n) ==
    Bind(Span(block, n), LAMBDA span :
        IF SpanFailed(block, n)
        THEN Bind(Min({ l \in 1..Len(span) : span[l] = " " }), LAMBDA blank :
                 [l \in 1..(blank - 1) |-> ReplaceFailFlags(span[l])])
        ELSE span)

\* C23: the lines kept in a sub-block are exactly the lines that end with a
\* digit followed by exactly two trailing space characters, in their
\* order; a line ending otherwise is dropped.
C23_KeptLinesEndDigitTwoSpaces ==
    SubblocksReturned /\ DistinctNames(args.block_phases) =>
        \A n \in 1..Len(ret.val) :
            ret.val[n].v = Filter(LinesToFilter(args.block_phases, n), EndsDigitTwoSpaces)


(***************************************************************************)
(* Claims about add_endmember_properties (checked under SpecSubblocks)     *)
(***************************************************************************)

PhaseBuilt == pc = "done" /\ ret.kind = "phase"

\* The tokens of line i of a sub-block, the first line without its five
\* leading tokens (marker, solution number, phase name, N, mol%).
EndmemberTokens(sub, i) == IF i = 1 THEN PySliceFrom(Split(sub[1]), 5) ELSE Split(sub[i])

\* The first tokens of the lines of a sub-block, each name once, in the
\* order of first appearance.
EndmemberNames(sub) ==
    Bind(Ascending({ i \in 1..Len(sub) :
                       \A j \in 1..(i - 1) : EndmemberTokens(sub, j)[1] # EndmemberTokens(sub, i)[1] }),
         LAMBDA first : [n \in 1..Len(first) |-> EndmemberTokens(sub, first[n])[1]])

\* C24: after add_endmember_properties, the fraction and the activity
\* mapping have the same keys, one per distinct endmember name (the first
\* token of a line, the first line without its five prefix tokens), in
\* report order; under the name of a line the fraction is the line's
\* third-from-last token and the activity its second-from-last token (of the
\* last line of that name).
C24_EndmemberNameFractionActivity ==
    PhaseBuilt =>
        Bind(ret.solution_phase_subblock, LAMBDA sub :
            /\ DictKeys(ret.val.endmember_fractions) = EndmemberNames(sub)
            /\ DictKeys(ret.val.endmember_activities) = EndmemberNames(sub)
            /\ \A i \in 1..Len(sub) :
                  Bind(EndmemberTokens(sub, i), LAMBDA toks :
                      (\A j \in (i + 1)..Len(sub) : EndmemberTokens(sub, j)[1] # toks[1])
                          => /\ DictGet(ret.val.endmember_fractions, toks[1])
                                    = Float(toks[Len(toks) - 2]).val
                             /\ DictGet(ret.val.endmember_activities, toks[1])
                                    = Float(toks[Len(toks) - 1]).val))

\* A phase was built from a sub-block of three lines, two of them rows of
\* the same endmember: two keys.
C24_Witness ==
    /\ PhaseBuilt
    /\ Len(ret.solution_phase_subblock) = 3
    /\ Len(ret.val.endmember_fractions) = 2
    /\ ret.val.solution_phase


(***************************************************************************)
(* Claims about the element index and the overflow flag (checked under     *)
(* Spec)                                                                   *)
(***************************************************************************)

\* The last line of the composition block starts with the indentation of a
\* continuation line.
LastCompositionLineIndented ==
    Bind(rd.blocks.block_composition, LAMBDA b : StartsWith(b[Len(b)], Spaces(20)))

\* The numbers of the first row of block that starts with " " and name, read
\* from n physical lines, without the row label and the last column.
NumbersOfLines(block, name, n) ==
    Bind(Min({ i \in 1..Len(block) : StartsWith(block[i], " " \o name) }), LAMBDA i :
    Bind(Split(block[i]) \o (IF n = 2 THEN Split(block[i + 1]) ELSE <<>>), LAMBDA toks :
        Floats(SubSeq(toks, 2, Len(toks) - 1)).val))

\* C25: what read_theriak returns has the overflow flag set if and only if
\* the last line of the composition block starts with the 20-character
\* indentation; the element list is the tokens of row 3 of the elements
\* block, followed by those of row 4 if and only if the flag is set, without
\* the last token and in report order; and every composition vector of
\* every phase of the Rock built from it is read from two physical lines if
\* the flag is set and from one if it is not.
C25_ElementIndexAndOverflowFlag ==
    /\ ReadReturned =>
          Bind(Split(rd.blocks.block_elements[4])
                  \o (IF LastCompositionLineIndented
                      THEN Split(rd.blocks.block_elements[5]) ELSE <<>>), LAMBDA header :
              /\ rd.output_line_overflow = LastCompositionLineIndented
              /\ rd.element_list = SubSeq(header, 1, Len(header) - 1))
    /\ RockReturned =>
          \A i \in 1..Len(PhasesOf(ret.rock)) :
              Bind(PhasesOf(ret.rock)[i], LAMBDA ph :
                  /\ ph.composition_apfu
                        = NumbersOfLines(rd.blocks.block_composition, ph.name,
                                         IF LastCompositionLineIndented THEN 2 ELSE 1)
                  /\ ph.composition_moles
                        = NumbersOfLines(rd.blocks.block_elements, ph.name,
                                         IF LastCompositionLineIndented THEN 2 ELSE 1))

\* A Rock was returned for a report whose tables wrap: the flag is set, the
\* element list has the symbols of both header lines, and the Rock has a
\* mineral and a fluid.
C25_Witness ==
    /\ RockReturned
    /\ rd.output_line_overflow
    /\ Len(rd.element_list) > ColumnsPerLine
    /\ Len(ret.rock.mineral_assemblage) > 0
    /\ Len(ret.rock.fluid_assemblage) > 0


(***************************************************************************)
(* Claims about add_deltaG (checked under SpecDeltaG)                      *)
(***************************************************************************)

DeltaGRan == pc \in {"add_g_system_per_mol", "raised"}

\* The rows of the table after its five title rows.
DeltaGBody == SubSeq(rd.blocks.block_deltaG, 6, Len(rd.blocks.block_deltaG))

HasDelimiter == \E i \in 1..Len(DeltaGBody) : DeltaGBody[i] = Delimiter

\* The token lists of the rows after the first delimiter that begin with
\* " S" or " P".
RowsBelowDelimiter ==
    Bind(Min({ i \in 1..Len(DeltaGBody) : DeltaGBody[i] = Delimiter }), LAMBDA d :
    Bind(Ascending({ i \in (d + 1)..Len(DeltaGBody) :
                       SubSeq(DeltaGBody[i], 1, 2) \in {" S", " P"} }), LAMBDA at :
        [n \in 1..Len(at) |-> Split(DeltaGBody[at[n]])]))

HasSentinel(toks) == \E j \in 1..Len(toks) : toks[j] = ZeroSentinel

\* The token after the first zero sentinel of a row.
AfterSentinel(toks) == toks[Min({ j \in 1..Len(toks) : toks[j] = ZeroSentinel }) + 1]

\* C26: when add_deltaG has run, the keys of the metastable energy table are
\* the third tokens of the rows that lie after the delimiter line (found
\* below the five title rows) and begin with " S" or " P", and of no other
\* row; the value of a key is the number that follows the first
\* "0.00000E+00" of its row (the last row of that name); and when one of
\* these rows has no "0.00000E+00" the stage has failed.
C26_MetastableRowsBelowDelimiter ==
    DeltaGRan =>
        /\ pc # "raised" => HasDelimiter
        /\ HasDelimiter =>
              Bind(RowsBelowDelimiter, LAMBDA rows :
                  /\ (\E n \in 1..Len(rows) : ~HasSentinel(rows[n])) => pc = "raised"
                  /\ pc # "raised" =>
                        /\ { rock.mineral_delta_G[k].k : k \in 1..Len(rock.mineral_delta_G) }
                              = { rows[n][3] : n \in 1..Len(rows) }
                        /\ \A n \in 1..Len(rows) :
                              (\A m \in (n + 1)..Len(rows) : rows[m][3] # rows[n][3])
                                  => DictGet(rock.mineral_delta_G, rows[n][3])
                                        = Float(AfterSentinel(rows[n])).val)

\* add_deltaG stored a table of two metastable phases from a block that also
\* lists a stable phase above the delimiter.
C26_Witness ==
    /\ pc = "add_g_system_per_mol"
    /\ HasDelimiter
    /\ Len(rock.mineral_delta_G) = 2
    /\ \E i \in 1..Len(DeltaGBody) :
          /\ SubSeq(DeltaGBody[i], 1, 2) = " S"
          /\ \A j \in 1..i : DeltaGBody[j] # Delimiter


(***************************************************************************)
(* Claims about direct calls on a TherCaller (checked under SpecDirect)    *)
(***************************************************************************)

\* create_rock has built its Rock object (it is in a later stage or has
\* returned).
RockConstructed ==
    \/ pc \in {"add_therin_to_reproduce", "add_bulk_rock_composition", "add_g_system",
               "add_bulk_density", "add_minerals", "add_fluids", "add_deltaG",
               "add_g_system_per_mol", "return"}
    \/ RockReturned

\* C27: the Rock create_rock returns carries the pressure, the temperature
\* and the two THERIN lines of the latest call_theriak on the TherCaller,
\* whichever report the blocks were read from, while its bulk, minerals and
\* fluids are those of the report read; on a TherCaller that never ran
\* call_theriak, create_rock builds no Rock (it fails with AttributeError),
\* and check_minimisation returns nothing for a failed report in verbose
\* mode.
C27_RockStampedByLatestCall ==
    /\ RockReturned =>
          /\ Len(args.calls) > 0
          /\ Bind(args.calls[Len(args.calls)], LAMBDA latest :
                /\ ret.rock.pressure = latest.pressure
                /\ ret.rock.temperature = latest.temperature
                /\ <<ret.rock.therin_PT, ret.rock.therin_bulk>> = TherinLines(latest))
          /\ Len(ret.rock.bulk_composition_moles) = theriak_run.run.nel
          /\ Names(ret.rock.mineral_assemblage) = theriak_run.run.mins
          /\ (Len(ret.rock.fluid_assemblage) > 0) = theriak_run.run.fluid
    /\ Len(args.calls) = 0 =>
          /\ ~RockConstructed
          /\ (pc = "raised" /\ ret.at = "Rock") => ret.err = "AttributeError"
          /\ (pc = "done" /\ ret.kind = "bool" /\ tc.verbose_mode) => ret.val

\* After call_theriak(A) and call_theriak(B) with other arguments and
\* another assemblage, a Rock was returned for the report of A.
C27_Witness ==
    /\ RockReturned
    /\ Len(args.calls) = 2
    /\ theriak_run.of_call = 1
    /\ args.calls[1].pressure # args.calls[2].pressure
    /\ args.calls[1].run.mins # args.calls[2].run.mins
    /\ ret.rock.pressure = args.calls[2].pressure
    /\ Names(ret.rock.mineral_assemblage) = args.calls[1].run.mins

=============================================================================
